---- MODULE Spec2Model ----
(***************************************************************************)
(* A model of the Tribler core session (src/tribler/core/session.py) and   *)
(* of the configuration manager it reads (src/tribler/tribler_config.py).  *)
(*                                                                         *)
(* Python dicts are TLA+ functions over strings, Python lists are          *)
(* sequences.  A path-like option ("libtorrent/socks_listen_ports") is     *)
(* represented by the sequence Path(option).parts yields.                  *)
(***************************************************************************)
EXTENDS Integers, Sequences, FiniteSets, TLC

VARIABLES
    DEFAULT_CONFIG,    \* tribler_config.DEFAULT_CONFIG, a module-level dict
    configuration,     \* TriblerConfigManager.configuration
    aliased,           \* TRUE iff configuration is the DEFAULT_CONFIG object itself
    configuration0,    \* history: configuration as handed to Session.__init__
    rust_available,    \* environment: ipv8_rust_tunnels can be imported
    INTERFACES,        \* ipv8 dispatcher registry entry INTERFACES["UDPIPv4"]
    context,           \* which context manager guards the IPv8 construction
    socks_servers,     \* Session.socks_servers
    ipv8,              \* Session.ipv8
    download_manager,  \* Session.download_manager
    loader,            \* Session.loader
    rest_manager,      \* Session.rest_manager
    globals,           \* Session.torrent_checker / db / mds
    pc,                \* position of the caller in __init__ / start / shutdown
    idx,               \* loop index of the loops over socks_servers
    phase,             \* number of the current phase of shutdown
    raised,            \* exception that left the last operation ("None" if none)
    trace,             \* history: the externally visible calls, in order
    get_option,        \* argument of the last TriblerConfigManager.get call
    get_result,        \* its result
    config_file,       \* what is at TriblerConfigManager.config_file on disk
    peers,             \* tunnel: the candidate peers the overlay has discovered
    circuits,          \* tunnel: the circuit pool, one record per circuit slot
    connections,       \* SOCKS bridge: one record per SocksConnection slot
    core_manager,      \* GUI: the CoreManager object
    printed,           \* GUI: what CoreManager has printed, in order
    set_option,        \* argument of the last TriblerConfigManager.set call
    set_value,         \* the value it was called with
    set_before,        \* history: configuration and defaults before that call
    set_calls,         \* number of set calls made on the manager
    argv,              \* run_tribler: the command line, sys.argv[1:]
    parsed_args,       \* run_tribler: what parse_args returned
    logging_level,     \* run_tribler: the level logging.basicConfig was given
    launched           \* run_tribler: the processes main has run, in order

vars == <<DEFAULT_CONFIG, configuration, aliased, configuration0, rust_available,
          INTERFACES, context, socks_servers, ipv8, download_manager, loader,
          rest_manager, globals, pc, idx, phase, raised, trace, get_option,
          get_result, config_file, peers, circuits, connections, core_manager,
          printed, set_option, set_value, set_before, set_calls, argv, parsed_args,
          logging_level, launched>>

session_vars == <<rust_available, INTERFACES, context, socks_servers, ipv8,
                  download_manager, loader, rest_manager, globals, pc, idx,
                  phase, raised, trace>>

config_vars == <<DEFAULT_CONFIG, configuration, aliased, configuration0>>

get_vars == <<get_option, get_result>>

file_vars == <<config_file>>

tunnel_vars == <<peers, circuits, connections>>

gui_vars == <<core_manager, printed>>

set_vars == <<set_option, set_value, set_before, set_calls>>

main_vars == <<argv, parsed_args, logging_level, launched>>

-----------------------------------------------------------------------------
(* Bounds of the model. *)

MaxServers == 1      \* longest stored libtorrent/socks_listen_ports list
MaxInterfaces == 1   \* longest stored ipv8/interfaces list
MaxEdits == 1        \* most sections in which a stored file differs from the defaults
MaxPeers == 2        \* most candidate peers the overlay knows
MaxCircuits == 2     \* slots of the circuit pool
MaxConnections == 1  \* SocksConnections open at a time
MaxExitCode == 2     \* largest exit code of the core process
MaxPrinted == 2      \* most chunks of core output that are printed
MaxSets == 2         \* most set calls made on one manager
MaxArgs == 3         \* most arguments on the command line of run_tribler

-----------------------------------------------------------------------------
(* Configuration values. *)

None == "None"

EmptyDict == [k \in {} |-> TRUE]

RECURSIVE SeqsUpTo(_, _)
SeqsUpTo(S, n) ==
    IF n = 0 THEN {<<>>}
    ELSE LET shorter == SeqsUpTo(S, n - 1)
         IN  shorter \cup {Append(s, e) : s \in {t \in shorter : Len(t) = n - 1}, e \in S}

\* DEFAULT_CONFIG as the module builds it (the sections the session reads).
DEFAULT_CONFIG_VALUE ==
    [ statistics       |-> FALSE,
      ipv8             |-> [interfaces |-> << [interface |-> "UDPIPv4"] >>],
      libtorrent       |-> [socks_listen_ports |-> <<0, 0, 0, 0, 0>>, port |-> 0],
      tunnel_community |-> [enabled |-> TRUE, min_circuits |-> 1, max_circuits |-> 8] ]

\* A stored configuration.json is what write() dumped, the defaults, changed
\* in some sections: a section holds other values (typed as TriblerConfig
\* declares them), lacks a key, or is missing from the file.
StoredPorts == {0, 1}

StoredInterfaceEntries ==
    { [interface |-> "UDPIPv4"],
      [interface |-> "UDPIPv4", worker_threads |-> 4],
      [interface |-> "UDPIPv6"] }

StoredStatistics ==
    {EmptyDict, "statistics" :> TRUE}

StoredLibtorrent ==
    {EmptyDict}
    \cup {"libtorrent" :> [socks_listen_ports |-> s, port |-> 0] :
             s \in SeqsUpTo(StoredPorts, MaxServers)}

StoredIPv8 ==
    {EmptyDict}
    \cup {"ipv8" :> [interfaces |-> s] : s \in SeqsUpTo(StoredInterfaceEntries, MaxInterfaces)}

StoredTunnel ==
    {"tunnel_community" :> [enabled |-> TRUE, max_circuits |-> 2]}

\* The section of the written defaults.
Written(section) == section :> DEFAULT_CONFIG_VALUE[section]

\* Number of sections in which the file f differs from the written defaults.
Edits(f) ==
    Cardinality({k \in DOMAIN DEFAULT_CONFIG_VALUE :
                    k \notin DOMAIN f \/ f[k] # DEFAULT_CONFIG_VALUE[k]})

\* The non-empty dicts json.load can return for configuration.json.
ConfigFiles ==
    {f \in {s @@ l @@ i @@ t : s \in StoredStatistics \cup {Written("statistics")},
                               l \in StoredLibtorrent \cup {Written("libtorrent")},
                               i \in StoredIPv8 \cup {Written("ipv8")},
                               t \in StoredTunnel \cup {Written("tunnel_community")}} :
        Edits(f) <= MaxEdits}

\* The options of the model: every path of DEFAULT_CONFIG_VALUE.
Options ==
    { <<>>,
      <<"statistics">>,
      <<"ipv8">>, <<"ipv8", "interfaces">>,
      <<"libtorrent">>, <<"libtorrent", "socks_listen_ports">>, <<"libtorrent", "port">>,
      <<"tunnel_community">>, <<"tunnel_community", "enabled">>,
      <<"tunnel_community", "min_circuits">>, <<"tunnel_community", "max_circuits">> }

-----------------------------------------------------------------------------
(* TriblerConfigManager.get *)

\* dict.get(key)
DictGet(d, key) == IF key \in DOMAIN d THEN d[key] ELSE None

\* The inner loop of get: walk the whole option through the defaults.
RECURSIVE FetchFromDefaults(_, _)
FetchFromDefaults(out, parts) ==
    IF parts = <<>> THEN out
    ELSE FetchFromDefaults(DictGet(out, Head(parts)), Tail(parts))

\* Variant: the defaults are consulted first, whatever is stored.
GetLoop_defaults_first(out, parts, option, defaults) ==
    FetchFromDefaults(defaults, option)

\* The outer loop of get: walk the stored configuration part by part; at the
\* first part that is missing, restart with the full option in the defaults.
RECURSIVE GetLoop(_, _, _, _)
GetLoop(out, parts, option, defaults) ==
    IF parts = <<>> THEN out
    ELSE IF Head(parts) \in DOMAIN out
         THEN GetLoop(out[Head(parts)], Tail(parts), option, defaults)
         ELSE FetchFromDefaults(defaults, option)

get(conf, defaults, option) == GetLoop(conf, option, option, defaults)

\* self.config.get(option) in the current state.
ConfigGet(option) == get(configuration, DEFAULT_CONFIG, option)

\* Assignment through self.config.configuration[...]: the dict object that
\* is written is DEFAULT_CONFIG itself when no stored configuration was loaded.
WriteConfiguration(new) ==
    /\ configuration' = new
    /\ DEFAULT_CONFIG' = IF aliased THEN new ELSE DEFAULT_CONFIG
    /\ UNCHANGED <<aliased, configuration0>>

-----------------------------------------------------------------------------
(* Session.__init__ and rust_enhancements *)

Event(ev, sub, i) == [ev |-> ev, sub |-> sub, i |-> i]

Socks5Server(port) == [port |-> port, state |-> "new", rust_endpoint |-> None]

\* Variant: every interface entry is taken for a UDPIPv4 one.
IsAnyInterface(ifc) == "interface" \in DOMAIN ifc

\* The test ifc["interface"] == "UDPIPv4" (lines 50, 53, 60).
IsUDPIPv4(ifc) == ifc["interface"] = "UDPIPv4"

\* Lines 74-81: the notifier, the download manager and one Socks5Server per
\* configured port.
Session_init_libtorrent ==
    /\ pc = "new"
    /\ LET ports == ConfigGet(<<"libtorrent", "socks_listen_ports">>)
       IN  socks_servers' = [i \in 1..Len(ports) |-> Socks5Server(ports[i])]
    /\ download_manager' = [state |-> "new", socks_listen_ports |-> <<>>]
    /\ pc' = "enter"
    /\ UNCHANGED <<config_vars, get_vars, file_vars, set_vars, main_vars,
                   tunnel_vars, gui_vars, rust_available, INTERFACES, context,
                   ipv8, loader, rest_manager, globals, idx, phase, raised,
                   trace>>

\* Line 84 with statistics enabled: nullcontext().
nullcontext_enter ==
    /\ pc = "enter"
    /\ ConfigGet(<<"statistics">>)
    /\ context' = "nullcontext"
    /\ pc' = "construct_ipv8"
    /\ UNCHANGED <<config_vars, get_vars, file_vars, set_vars, main_vars,
                   tunnel_vars, gui_vars, rust_available, INTERFACES,
                   socks_servers, ipv8, download_manager, loader,
                   rest_manager, globals, idx, phase, raised, trace>>

\* session.config.configuration["ipv8"]["interfaces"] raises KeyError when the
\* stored configuration lacks one of the two keys.
HasStoredInterfaces ==
    /\ "ipv8" \in DOMAIN configuration
    /\ "interfaces" \in DOMAIN configuration["ipv8"]

WithInterfaces(ifcs) ==
    [configuration EXCEPT !["ipv8"] = [@ EXCEPT !["interfaces"] = ifcs]]

\* Variant: worker_threads is derived from min_circuits.
SetWorkerThreads_min_circuits(ifc, value) ==
    [k \in DOMAIN ifc \cup {"worker_threads"} |->
        IF k = "worker_threads" THEN ConfigGet(<<"tunnel_community", "min_circuits">>)
        ELSE ifc[k]]

\* ifc["worker_threads"] = value
SetWorkerThreads(ifc, value) ==
    [k \in DOMAIN ifc \cup {"worker_threads"} |->
        IF k = "worker_threads" THEN value ELSE ifc[k]]

\* Lines 45-52: both imports succeed.
rust_enhancements_try ==
    /\ pc = "enter"
    /\ ~ConfigGet(<<"statistics">>)
    /\ rust_available
    /\ INTERFACES' = "RustEndpoint"
    /\ context' = "rust_enhancements"
    /\ IF HasStoredInterfaces
       THEN LET ifcs == configuration["ipv8"]["interfaces"]
                threads == ConfigGet(<<"tunnel_community", "max_circuits">>)
            IN  /\ WriteConfiguration(WithInterfaces(
                       [i \in 1..Len(ifcs) |->
                           IF IsUDPIPv4(ifcs[i]) THEN SetWorkerThreads(ifcs[i], threads)
                           ELSE ifcs[i]]))
                /\ pc' = "construct_ipv8"
                /\ UNCHANGED raised
       ELSE /\ pc' = "init_failed"
            /\ raised' = "KeyError"
            /\ UNCHANGED config_vars
    /\ UNCHANGED <<get_vars, file_vars, set_vars, main_vars, tunnel_vars,
                   gui_vars, rust_available, socks_servers, ipv8,
                   download_manager, loader, rest_manager, globals, idx,
                   phase, trace>>

\* ifc.pop("worker_threads"): the dict without the key.
PopWorkerThreads(ifc) == [k \in DOMAIN ifc \ {"worker_threads"} |-> ifc[k]]

\* dict.pop(key) without a default raises KeyError when the key is missing.
PopRaises(ifc) == "worker_threads" \notin DOMAIN ifc

\* Index of the first UDPIPv4 entry whose pop raises, 0 if none does.
FirstPopFailure(ifcs) ==
    LET bad == {i \in 1..Len(ifcs) : IsUDPIPv4(ifcs[i]) /\ PopRaises(ifcs[i])}
    IN  IF bad = {} THEN 0 ELSE CHOOSE i \in bad : \A j \in bad : i <= j

\* Lines 57-62: the import of ipv8_rust_tunnels raises ImportError.
rust_enhancements_except ==
    /\ pc = "enter"
    /\ ~ConfigGet(<<"statistics">>)
    /\ ~rust_available
    /\ context' = "fallback"
    /\ IF HasStoredInterfaces
       THEN LET ifcs == configuration["ipv8"]["interfaces"]
                fail == FirstPopFailure(ifcs)
                last == IF fail = 0 THEN Len(ifcs) ELSE fail - 1
            IN  /\ WriteConfiguration(WithInterfaces(
                       [i \in 1..Len(ifcs) |->
                           IF i <= last /\ IsUDPIPv4(ifcs[i]) THEN PopWorkerThreads(ifcs[i])
                           ELSE ifcs[i]]))
                /\ pc' = IF fail = 0 THEN "construct_ipv8" ELSE "init_failed"
                /\ raised' = IF fail = 0 THEN raised ELSE "KeyError"
       ELSE /\ pc' = "init_failed"
            /\ raised' = "KeyError"
            /\ UNCHANGED config_vars
    /\ UNCHANGED <<get_vars, file_vars, set_vars, main_vars, tunnel_vars,
                   gui_vars, rust_available, INTERFACES, socks_servers, ipv8,
                   download_manager, loader, rest_manager, globals, idx,
                   phase, trace>>

\* Line 85: IPv8(self.config.get("ipv8"), ...).  The overlay builds its
\* UDPIPv4 endpoint from the class registered in INTERFACES.  The
\* constructor is library code and may raise.
IPv8_construct ==
    /\ pc = "construct_ipv8"
    /\ \E ok \in BOOLEAN :
        IF ok
        THEN /\ ipv8' = [state |-> "constructed",
                         configuration |-> ConfigGet(<<"ipv8">>),
                         endpoint |-> INTERFACES]
             /\ trace' = Append(trace, Event("construct", "ipv8", 0))
             /\ pc' = "exit"
             /\ UNCHANGED raised
        ELSE /\ pc' = "init_failed"
             /\ raised' = "IPv8Error"
             /\ UNCHANGED <<ipv8, trace>>
    /\ UNCHANGED <<config_vars, get_vars, file_vars, set_vars, main_vars,
                   tunnel_vars, gui_vars, rust_available, INTERFACES, context,
                   socks_servers, download_manager, loader, rest_manager,
                   globals, idx, phase>>

\* Lines 53-56 (after the yield of the try branch); the other two context
\* managers do nothing on exit.
rust_enhancements_exit ==
    /\ pc = "exit"
    /\ IF /\ context = "rust_enhancements"
          /\ \E i \in 1..Len(ConfigGet(<<"ipv8", "interfaces">>)) :
                 IsUDPIPv4(ConfigGet(<<"ipv8", "interfaces">>)[i])
       THEN socks_servers' =
                [i \in 1..Len(socks_servers) |->
                    [socks_servers[i] EXCEPT !.rust_endpoint =
                        IF ipv8.endpoint = "RustEndpoint" THEN "RustEndpoint" ELSE None]]
       ELSE UNCHANGED socks_servers
    /\ pc' = "init_rest"
    /\ UNCHANGED <<config_vars, get_vars, file_vars, set_vars, main_vars,
                   tunnel_vars, gui_vars, rust_available, INTERFACES, context,
                   ipv8, download_manager, loader, rest_manager, globals, idx,
                   phase, raised, trace>>

\* Lines 86-94: the loader, the REST manager and the optional globals.
Session_init_rest ==
    /\ pc = "init_rest"
    /\ loader' = [launchers |-> <<>>, loaded |-> FALSE]
    /\ rest_manager' = [endpoints |-> <<>>, state |-> "new"]
    /\ globals' = [torrent_checker |-> None, db |-> None, mds |-> None]
    /\ pc' = "constructed"
    /\ UNCHANGED <<config_vars, get_vars, file_vars, set_vars, main_vars,
                   tunnel_vars, gui_vars, rust_available, INTERFACES, context,
                   socks_servers, ipv8, download_manager, idx, raised, trace,
                   phase>>

-----------------------------------------------------------------------------
(* Session.start *)

\* The endpoints register_rest_endpoints adds, in order (lines 112-120).
REST_ENDPOINTS ==
    << "CreateTorrentEndpoint", "DownloadsEndpoint", "EventsEndpoint", "IPv8RootEndpoint",
       "LibTorrentEndpoint", "SettingsEndpoint", "ShutdownEndpoint", "StatisticsEndpoint",
       "TorrentInfoEndpoint" >>

\* Variant: the tunnel component is registered before the torrent checker.
LAUNCHERS_tunnel_first ==
    << "ContentDiscoveryComponent", "DatabaseComponent", "DHTDiscoveryComponent",
       "KnowledgeComponent", "RendezvousComponent", "TunnelComponent",
       "TorrentCheckerComponent" >>

\* The launchers register_launchers sets, in order (lines 100-106).
LAUNCHERS ==
    << "ContentDiscoveryComponent", "DatabaseComponent", "DHTDiscoveryComponent",
       "KnowledgeComponent", "RendezvousComponent", "TorrentCheckerComponent",
       "TunnelComponent" >>

\* The values components can leave in the optional globals of the session.
GlobalsAfterLoad ==
    [torrent_checker : {None, "running"}, db : {None, "open"}, mds : {None, "open"}]

\* An exception leaves start: the coroutine ends where it is.
StartAborts(exc, sub) ==
    /\ pc' = "start_failed"
    /\ raised' = exc
    /\ trace' = Append(trace, Event("raised", sub, 0))

\* Line 127.
register_rest_endpoints ==
    /\ pc = "constructed"
    /\ rest_manager' = [rest_manager EXCEPT !.endpoints = REST_ENDPOINTS]
    /\ pc' = "start_socks"
    /\ idx' = 1
    /\ UNCHANGED <<config_vars, get_vars, file_vars, set_vars, main_vars,
                   tunnel_vars, gui_vars, rust_available, INTERFACES, context,
                   socks_servers, ipv8, download_manager, loader, globals,
                   phase, raised, trace>>

\* Lines 130-131, one iteration: await server.start().
start_socks_server ==
    /\ pc = "start_socks"
    /\ idx <= Len(socks_servers)
    /\ \E ok \in BOOLEAN :
        IF ok
        THEN /\ socks_servers' = [socks_servers EXCEPT ![idx].state = "running"]
             /\ trace' = Append(trace, Event("start", "socks", idx))
             /\ idx' = idx + 1
             /\ UNCHANGED <<pc, raised>>
        ELSE /\ StartAborts("SocksStartError", "socks")
             /\ UNCHANGED <<socks_servers, idx>>
    /\ UNCHANGED <<config_vars, get_vars, file_vars, set_vars, main_vars,
                   tunnel_vars, gui_vars, rust_available, INTERFACES, context,
                   ipv8, download_manager, loader, rest_manager, globals,
                   phase>>

\* Variant: the ports are handed to the download manager as soon as the
\* loop over the listeners is entered.
set_socks_listen_ports_early ==
    /\ pc = "start_socks"
    /\ idx >= 1
    /\ download_manager' =
           [download_manager EXCEPT !.socks_listen_ports =
               [i \in 1..Len(socks_servers) |-> socks_servers[i].port]]
    /\ trace' = Append(trace, Event("set_ports", "download_manager", 0))
    /\ pc' = "dm_initialize"
    /\ UNCHANGED <<config_vars, get_vars, file_vars, set_vars, main_vars,
                   tunnel_vars, gui_vars, rust_available, INTERFACES, context,
                   socks_servers, ipv8, loader, rest_manager, globals, idx,
                   phase, raised>>

\* Line 132, reached when the loop is exhausted.
set_socks_listen_ports ==
    /\ pc = "start_socks"
    /\ idx > Len(socks_servers)
    /\ download_manager' =
           [download_manager EXCEPT !.socks_listen_ports =
               [i \in 1..Len(socks_servers) |-> socks_servers[i].port]]
    /\ trace' = Append(trace, Event("set_ports", "download_manager", 0))
    /\ pc' = "dm_initialize"
    /\ UNCHANGED <<config_vars, get_vars, file_vars, set_vars, main_vars,
                   tunnel_vars, gui_vars, rust_available, INTERFACES, context,
                   socks_servers, ipv8, loader, rest_manager, globals, idx,
                   phase, raised>>

\* Line 133.
download_manager_initialize ==
    /\ pc = "dm_initialize"
    /\ \E ok \in BOOLEAN :
        IF ok
        THEN /\ download_manager' = [download_manager EXCEPT !.state = "initialized"]
             /\ trace' = Append(trace, Event("initialize", "download_manager", 0))
             /\ pc' = "dm_start"
             /\ UNCHANGED raised
        ELSE /\ StartAborts("DownloadManagerError", "download_manager")
             /\ UNCHANGED download_manager
    /\ UNCHANGED <<config_vars, get_vars, file_vars, set_vars, main_vars,
                   tunnel_vars, gui_vars, rust_available, INTERFACES, context,
                   socks_servers, ipv8, loader, rest_manager, globals, idx,
                   phase>>

\* Line 134.
download_manager_start ==
    /\ pc = "dm_start"
    /\ download_manager' = [download_manager EXCEPT !.state = "running"]
    /\ trace' = Append(trace, Event("start", "download_manager", 0))
    /\ pc' = "register_launchers"
    /\ UNCHANGED <<config_vars, get_vars, file_vars, set_vars, main_vars,
                   tunnel_vars, gui_vars, rust_available, INTERFACES, context,
                   socks_servers, ipv8, loader, rest_manager, globals, idx,
                   phase, raised>>

\* Line 137.
register_launchers ==
    /\ pc = "register_launchers"
    /\ loader' = [loader EXCEPT !.launchers = LAUNCHERS]
    /\ trace' = Append(trace, Event("register", "loader", 0))
    /\ pc' = "load"
    /\ UNCHANGED <<config_vars, get_vars, file_vars, set_vars, main_vars,
                   tunnel_vars, gui_vars, rust_available, INTERFACES, context,
                   socks_servers, ipv8, download_manager, rest_manager,
                   globals, idx, phase, raised>>

\* Variant: an exception of load is swallowed and start goes on.
loader_load_swallowed ==
    /\ pc = "load"
    /\ \E ok \in BOOLEAN, g \in GlobalsAfterLoad :
        /\ globals' = g
        /\ loader' = [loader EXCEPT !.loaded = ok]
        /\ trace' = Append(trace, Event(IF ok THEN "load" ELSE "raised", "loader", 0))
        /\ pc' = "ipv8_start"
        /\ UNCHANGED raised
    /\ UNCHANGED <<config_vars, get_vars, file_vars, set_vars, main_vars,
                   tunnel_vars, gui_vars, rust_available, INTERFACES, context,
                   socks_servers, ipv8, download_manager, rest_manager, idx,
                   phase>>

\* Line 138: self.loader.load(self.ipv8, self).  The components that were
\* launched before a failing one may already have set their global.
loader_load ==
    /\ pc = "load"
    /\ \E ok \in BOOLEAN, g \in GlobalsAfterLoad :
        /\ globals' = g
        /\ IF ok
           THEN /\ loader' = [loader EXCEPT !.loaded = TRUE]
                /\ trace' = Append(trace, Event("load", "loader", 0))
                /\ pc' = "ipv8_start"
                /\ UNCHANGED raised
           ELSE /\ StartAborts("ComponentError", "loader")
                /\ UNCHANGED loader
    /\ UNCHANGED <<config_vars, get_vars, file_vars, set_vars, main_vars,
                   tunnel_vars, gui_vars, rust_available, INTERFACES, context,
                   socks_servers, ipv8, download_manager, rest_manager, idx,
                   phase>>

\* Variant: the overlay is not started, start goes on to the REST manager.
ipv8_start_skipped ==
    /\ pc = "ipv8_start"
    /\ pc' = "rest_start"
    /\ UNCHANGED <<config_vars, get_vars, file_vars, set_vars, main_vars,
                   tunnel_vars, gui_vars, rust_available, INTERFACES, context,
                   socks_servers, ipv8, download_manager, loader,
                   rest_manager, globals, idx, phase, raised, trace>>

\* Line 139.
ipv8_start ==
    /\ pc = "ipv8_start"
    /\ \E ok \in BOOLEAN :
        IF ok
        THEN /\ ipv8' = [ipv8 EXCEPT !.state = "running"]
             /\ trace' = Append(trace, Event("start", "ipv8", 0))
             /\ pc' = "rest_start"
             /\ UNCHANGED raised
        ELSE /\ StartAborts("IPv8Error", "ipv8")
             /\ UNCHANGED ipv8
    /\ UNCHANGED <<config_vars, get_vars, file_vars, set_vars, main_vars,
                   tunnel_vars, gui_vars, rust_available, INTERFACES, context,
                   socks_servers, download_manager, loader, rest_manager,
                   globals, idx, phase>>

\* Lines 142-144.
rest_manager_start ==
    /\ pc = "rest_start"
    /\ \E ok \in BOOLEAN :
        IF ok
        THEN /\ rest_manager' = [rest_manager EXCEPT !.state = "running"]
             /\ trace' = Append(trace, Event("start", "rest_manager", 0))
             /\ pc' = "started"
             /\ UNCHANGED raised
        ELSE /\ StartAborts("RESTError", "rest_manager")
             /\ UNCHANGED rest_manager
    /\ UNCHANGED <<config_vars, get_vars, file_vars, set_vars, main_vars,
                   tunnel_vars, gui_vars, rust_available, INTERFACES, context,
                   socks_servers, ipv8, download_manager, loader, globals,
                   idx, phase>>

-----------------------------------------------------------------------------
(* Session.shutdown *)

\* Variant: the reverse of the start order, the REST manager first.
SHUTDOWN_PHASES_reversed ==
    << "rest_manager", "torrent_checker", "ipv8", "db", "mds", "download_manager", "socks" >>

\* The phases of shutdown in program order (lines 151-175).
SHUTDOWN_PHASES ==
    << "torrent_checker", "ipv8", "download_manager", "socks", "db", "mds", "rest_manager" >>

\* The state= text of the notification of each phase.
ShutdownState(ph) ==
    CASE ph = "torrent_checker"  -> "Shutting down torrent checker."
      [] ph = "ipv8"             -> "Shutting down IPv8 peer-to-peer overlays."
      [] ph = "download_manager" -> "Shutting down download manager."
      [] ph = "socks"            -> "Shutting down local SOCKS5 interface."
      [] ph = "db"               -> "Shutting down general-purpose database."
      [] ph = "mds"              -> "Shutting down metadata database."
      [] ph = "rest_manager"     -> "Shutting down GUI connection. Going dark."

\* The condition that guards a phase: the optional globals and the overlay
\* are tested for truth, the other phases are unconditional.
PhaseGuard(ph) ==
    CASE ph = "torrent_checker"  -> globals.torrent_checker # None
      [] ph = "ipv8"             -> ipv8.state # None
      [] ph = "db"               -> globals.db # None
      [] ph = "mds"              -> globals.mds # None
      [] OTHER                   -> TRUE

\* Position once the stop calls of phase number n are over.
AfterPhase(n) ==
    IF n = Len(SHUTDOWN_PHASES) THEN "stopped" ELSE "shutdown_notify"

\* Variant: shutdown goes dark first, the REST manager is stopped at once.
shutdown_begin_going_dark ==
    /\ pc \in {"started", "start_failed"}
    /\ pc' = "shutdown_notify"
    /\ phase' = 1
    /\ raised' = None
    /\ trace' = trace \o << Event("call", "shutdown", 0), Event("stop", "rest_manager", 0) >>
    /\ rest_manager' = [rest_manager EXCEPT !.state = "stopped"]
    /\ UNCHANGED <<config_vars, get_vars, file_vars, set_vars, main_vars,
                   tunnel_vars, gui_vars, rust_available, INTERFACES, context,
                   socks_servers, ipv8, download_manager, loader, globals, idx>>

\* The caller invokes shutdown once start has returned or raised.
shutdown_begin ==
    /\ pc \in {"started", "start_failed"}
    /\ pc' = "shutdown_notify"
    /\ phase' = 1
    /\ raised' = None
    /\ trace' = Append(trace, Event("call", "shutdown", 0))
    /\ UNCHANGED <<config_vars, get_vars, file_vars, set_vars, main_vars,
                   tunnel_vars, gui_vars, rust_available, INTERFACES, context,
                   socks_servers, ipv8, download_manager, loader,
                   rest_manager, globals, idx>>

\* A guarded phase whose subsystem is absent is skipped.
shutdown_skip ==
    /\ pc = "shutdown_notify"
    /\ ~PhaseGuard(SHUTDOWN_PHASES[phase])
    /\ pc' = AfterPhase(phase)
    /\ phase' = phase + 1
    /\ UNCHANGED <<config_vars, get_vars, file_vars, set_vars, main_vars,
                   tunnel_vars, gui_vars, rust_available, INTERFACES, context,
                   socks_servers, ipv8, download_manager, loader,
                   rest_manager, globals, idx, raised, trace>>

\* Variant: the notification of the download manager phase is emitted only
\* after its stop, together with the SOCKS notification.
shutdown_notify_late ==
    /\ pc = "shutdown_notify"
    /\ PhaseGuard(SHUTDOWN_PHASES[phase])
    /\ trace' = IF SHUTDOWN_PHASES[phase] = "download_manager" THEN trace
                ELSE IF SHUTDOWN_PHASES[phase] = "socks"
                THEN trace \o << Event("notify", ShutdownState("download_manager"), 0),
                                 Event("notify", ShutdownState("socks"), 0) >>
                ELSE Append(trace, Event("notify", ShutdownState(SHUTDOWN_PHASES[phase]), 0))
    /\ IF SHUTDOWN_PHASES[phase] # "socks"
       THEN /\ pc' = "shutdown_stop"
            /\ UNCHANGED <<phase, idx>>
       ELSE /\ idx' = 1
            /\ IF Len(socks_servers) = 0
               THEN pc' = AfterPhase(phase) /\ phase' = phase + 1
               ELSE pc' = "shutdown_socks" /\ UNCHANGED phase
    /\ UNCHANGED <<config_vars, get_vars, file_vars, set_vars, main_vars,
                   tunnel_vars, gui_vars, rust_available, INTERFACES, context,
                   socks_servers, ipv8, download_manager, loader,
                   rest_manager, globals, raised>>

\* self.notifier.notify(Notification.tribler_shutdown_state, state=...); the
\* loop over socks_servers that follows the SOCKS notification is left at
\* once when the list is empty.
shutdown_notify ==
    /\ pc = "shutdown_notify"
    /\ PhaseGuard(SHUTDOWN_PHASES[phase])
    /\ trace' = Append(trace, Event("notify", ShutdownState(SHUTDOWN_PHASES[phase]), 0))
    /\ IF SHUTDOWN_PHASES[phase] # "socks"
       THEN /\ pc' = "shutdown_stop"
            /\ UNCHANGED <<phase, idx>>
       ELSE /\ idx' = 1
            /\ IF Len(socks_servers) = 0
               THEN pc' = AfterPhase(phase) /\ phase' = phase + 1
               ELSE pc' = "shutdown_socks" /\ UNCHANGED phase
    /\ UNCHANGED <<config_vars, get_vars, file_vars, set_vars, main_vars,
                   tunnel_vars, gui_vars, rust_available, INTERFACES, context,
                   socks_servers, ipv8, download_manager, loader,
                   rest_manager, globals, raised>>

\* The subsystem state after its stop call returned (ok) or raised.
Stopped(ok) == IF ok THEN "stopped" ELSE "stop_failed"

\* An exception leaves shutdown: nothing catches it, the coroutine ends.
ShutdownAborts(exc) ==
    /\ pc' = "shutdown_failed"
    /\ raised' = exc
    /\ UNCHANGED phase

\* A stop call returned: on to the next phase.
ShutdownContinues ==
    /\ pc' = AfterPhase(phase)
    /\ phase' = phase + 1
    /\ UNCHANGED raised

\* The stop call of a phase other than the SOCKS loop.
shutdown_stop ==
    /\ pc = "shutdown_stop"
    /\ LET ph == SHUTDOWN_PHASES[phase] IN
       \E ok \in BOOLEAN :
        /\ trace' = Append(trace, Event(IF ok THEN "stop" ELSE "stop_raised", ph, 0))
        /\ globals' = IF ph \in {"torrent_checker", "db", "mds"}
                      THEN [globals EXCEPT ![ph] = Stopped(ok)] ELSE globals
        /\ ipv8' = IF ph = "ipv8" THEN [ipv8 EXCEPT !.state = Stopped(ok)] ELSE ipv8
        /\ download_manager' = IF ph = "download_manager"
                               THEN [download_manager EXCEPT !.state = Stopped(ok)]
                               ELSE download_manager
        /\ rest_manager' = IF ph = "rest_manager"
                           THEN [rest_manager EXCEPT !.state = Stopped(ok)]
                           ELSE rest_manager
        /\ IF ok THEN ShutdownContinues ELSE ShutdownAborts("StopError")
    /\ UNCHANGED <<config_vars, get_vars, file_vars, set_vars, main_vars,
                   tunnel_vars, gui_vars, rust_available, INTERFACES, context,
                   socks_servers, loader, idx>>

\* Variant: the loop is left after the first listener.
shutdown_socks_server_once ==
    /\ pc = "shutdown_socks"
    /\ \E ok \in BOOLEAN :
        /\ trace' = Append(trace, Event(IF ok THEN "stop" ELSE "stop_raised", "socks", idx))
        /\ socks_servers' = [socks_servers EXCEPT ![idx].state = Stopped(ok)]
        /\ idx' = idx + 1
        /\ IF ok THEN ShutdownContinues ELSE ShutdownAborts("StopError")
    /\ UNCHANGED <<config_vars, get_vars, file_vars, set_vars, main_vars,
                   tunnel_vars, gui_vars, rust_available, INTERFACES, context,
                   ipv8, download_manager, loader, rest_manager, globals>>

\* Lines 162-163, one iteration: await server.stop().
shutdown_socks_server ==
    /\ pc = "shutdown_socks"
    /\ \E ok \in BOOLEAN :
        /\ trace' = Append(trace, Event(IF ok THEN "stop" ELSE "stop_raised", "socks", idx))
        /\ socks_servers' = [socks_servers EXCEPT ![idx].state = Stopped(ok)]
        /\ IF ok
           THEN /\ idx' = idx + 1
                /\ IF idx = Len(socks_servers)
                   THEN ShutdownContinues
                   ELSE UNCHANGED <<pc, phase, raised>>
           ELSE /\ ShutdownAborts("StopError")
                /\ UNCHANGED idx
    /\ UNCHANGED <<config_vars, get_vars, file_vars, set_vars, main_vars,
                   tunnel_vars, gui_vars, rust_available, INTERFACES, context,
                   ipv8, download_manager, loader, rest_manager, globals>>

-----------------------------------------------------------------------------
(* The session: a configuration is loaded, a Session is constructed from   *)
(* it, started and shut down.                                              *)

\* TriblerConfigManager.__init__, lines 239-247: the stored file when it
\* yields a non-empty dict, the DEFAULT_CONFIG object otherwise.
LoadedConfigurations ==
    [conf : ConfigFiles, aliased : {FALSE}]
    \cup {[conf |-> DEFAULT_CONFIG_VALUE, aliased |-> TRUE]}

\* No Session object exists yet.
NoSession ==
    /\ INTERFACES = "UDPEndpoint"
    /\ context = None
    /\ socks_servers = <<>>
    /\ ipv8 = [state |-> None, configuration |-> EmptyDict, endpoint |-> None]
    /\ download_manager = [state |-> None, socks_listen_ports |-> <<>>]
    /\ loader = [launchers |-> <<>>, loaded |-> FALSE]
    /\ rest_manager = [endpoints |-> <<>>, state |-> None]
    /\ globals = [torrent_checker |-> None, db |-> None, mds |-> None]
    /\ idx = 0
    /\ phase = 0
    /\ raised = None
    /\ trace = <<>>

\* No tunnel community is loaded and no SOCKS connection was accepted.
NoTunnel ==
    /\ peers = {}
    /\ circuits = <<>>
    /\ connections = <<>>

\* set was never called on the manager.
NoSet ==
    /\ set_option = <<>>
    /\ set_value = None
    /\ set_before = [configuration |-> EmptyDict, DEFAULT_CONFIG |-> EmptyDict]
    /\ set_calls = 0

\* run_tribler.main does not run.
NoMain ==
    /\ argv = <<>>
    /\ parsed_args = [state |-> None]
    /\ logging_level = None
    /\ launched = <<>>

\* No GUI process runs.
NoGui ==
    /\ core_manager = [state |-> None]
    /\ printed = <<>>

InitManager ==
    /\ DEFAULT_CONFIG = DEFAULT_CONFIG_VALUE
    /\ \E c \in LoadedConfigurations :
        /\ configuration = c.conf
        /\ configuration0 = c.conf
        /\ aliased = c.aliased
    /\ config_file = [kind |-> None]
    /\ NoSession
    /\ NoSet
    /\ NoMain
    /\ NoTunnel
    /\ NoGui
    /\ get_option = <<>>
    /\ get_result = None

Init ==
    /\ InitManager
    /\ rust_available \in BOOLEAN
    /\ pc = "new"

Next ==
    \/ Session_init_libtorrent
    \/ nullcontext_enter
    \/ rust_enhancements_try
    \/ rust_enhancements_except
    \/ IPv8_construct
    \/ rust_enhancements_exit
    \/ Session_init_rest
    \/ register_rest_endpoints
    \/ start_socks_server
    \/ set_socks_listen_ports
    \/ download_manager_initialize
    \/ download_manager_start
    \/ register_launchers
    \/ loader_load
    \/ ipv8_start
    \/ rest_manager_start
    \/ shutdown_begin
    \/ shutdown_skip
    \/ shutdown_notify
    \/ shutdown_stop
    \/ shutdown_socks_server

Spec == Init /\ [][Next]_vars

-----------------------------------------------------------------------------
(* The configuration manager on its own: options are read from a loaded    *)
(* configuration.                                                          *)

\* TriblerConfigManager.get(option), lines 256-270.
TriblerConfigManager_get ==
    /\ pc \in {"manager", "got", "set"}
    /\ \E option \in Options :
        /\ get_option' = option
        /\ get_result' = ConfigGet(option)
    /\ pc' = "got"
    /\ UNCHANGED <<config_vars, file_vars, set_vars, main_vars, tunnel_vars,
                   gui_vars, rust_available, INTERFACES, context,
                   socks_servers, ipv8, download_manager, loader,
                   rest_manager, globals, idx, phase, raised, trace>>

InitConfig ==
    /\ InitManager
    /\ rust_available = FALSE
    /\ pc = "manager"

NextConfig == TriblerConfigManager_get

SpecConfig == InitConfig /\ [][NextConfig]_vars

-----------------------------------------------------------------------------
(* The construction of the configuration manager from what is on disk.     *)

\* A JSON value that json.load returns: an object with its members, or the
\* empty (falsy) value of another JSON type: null, false, 0, "" and [].
JsonValue(type, members) == [type |-> type, members |-> members]

JsonValues ==
    {JsonValue("object", f) : f \in ConfigFiles \cup {EmptyDict}}
    \cup {JsonValue(type, EmptyDict) : type \in {"null", "false", "zero", "string", "array"}}

\* What config_file can be: no file, text that is not JSON, bytes that are
\* not text in the encoding of open(), or the text of a JSON value.
NoJson == JsonValue(None, EmptyDict)

StoredFiles ==
    {[kind |-> kind, json |-> NoJson] : kind \in {"missing", "invalid_json", "undecodable"}}
    \cup {[kind |-> "json", json |-> j] : j \in JsonValues}

\* config_file.exists()
Exists(file) == file.kind # "missing"

\* The exception that leaves json.load(f) for the file ("None" if none).
LoadError(file) ==
    CASE file.kind = "invalid_json" -> "JSONDecodeError"
      [] file.kind = "undecodable" -> "UnicodeDecodeError"
      [] OTHER -> None

\* Variant: the try statement has no except clause.
Caught_nothing(exc) == FALSE

\* except JSONDecodeError
Caught(exc) == exc = "JSONDecodeError"

\* `not self.configuration`
Falsy(json) == json.type # "object" \/ DOMAIN json.members = {}

\* TriblerConfigManager(config_file), lines 231-247.
TriblerConfigManager_init ==
    /\ pc = "unloaded"
    /\ LET exc == IF Exists(config_file) THEN LoadError(config_file) ELSE None
           loaded == IF Exists(config_file) /\ exc = None
                     THEN config_file.json
                     ELSE JsonValue("object", EmptyDict)
       IN  IF exc # None /\ ~Caught(exc)
           THEN /\ raised' = exc
                /\ pc' = "init_failed"
                /\ UNCHANGED config_vars
           ELSE /\ raised' = None
                /\ pc' = "manager"
                /\ configuration' = IF Falsy(loaded) THEN DEFAULT_CONFIG
                                    ELSE loaded.members
                /\ aliased' = Falsy(loaded)
                /\ configuration0' = configuration'
                /\ UNCHANGED DEFAULT_CONFIG
    /\ UNCHANGED <<get_vars, file_vars, set_vars, main_vars, tunnel_vars,
                   gui_vars, rust_available, INTERFACES, context,
                   socks_servers, ipv8, download_manager, loader,
                   rest_manager, globals, idx, phase, trace>>

InitLoad ==
    /\ DEFAULT_CONFIG = DEFAULT_CONFIG_VALUE
    /\ configuration = EmptyDict
    /\ configuration0 = EmptyDict
    /\ aliased = FALSE
    /\ config_file \in StoredFiles
    /\ NoSession
    /\ NoSet
    /\ NoMain
    /\ NoTunnel
    /\ NoGui
    /\ get_option = <<>>
    /\ get_result = None
    /\ rust_available = FALSE
    /\ pc = "unloaded"

NextLoad ==
    \/ TriblerConfigManager_init
    \/ TriblerConfigManager_get

SpecLoad == InitLoad /\ [][NextLoad]_vars

-----------------------------------------------------------------------------
(* TriblerConfigManager.set on a loaded manager. *)

\* parts[:-1]
AllButLast(parts) == SubSeq(parts, 1, Len(parts) - 1)

\* Every part of parts is a key on the walk from the dict current.
RECURSIVE Present(_, _)
Present(current, parts) ==
    \/ parts = <<>>
    \/ /\ Head(parts) \in DOMAIN current
       /\ Present(current[Head(parts)], Tail(parts))

\* The exception that leaves set(option, value) ("None" if none): the walk
\* of line 278 meets a missing key, or parts[-1] of an empty option.
SetError(conf, option) ==
    IF ~Present(conf, AllButLast(option)) THEN "KeyError"
    ELSE IF option = <<>> THEN "IndexError"
    ELSE None

\* d[key] = value
DictSet(d, key, value) ==
    [k \in DOMAIN d \cup {key} |-> IF k = key THEN value ELSE d[k]]

\* Variant: the value is stored under the last part in the top-level dict.
SetLoop_top_level(current, parts, value) ==
    DictSet(current, parts[Len(parts)], value)

\* Lines 276-279: walk to the dict of the last part and assign there.
RECURSIVE SetLoop(_, _, _)
SetLoop(current, parts, value) ==
    IF Len(parts) = 1 THEN DictSet(current, parts[1], value)
    ELSE DictSet(current, Head(parts), SetLoop(current[Head(parts)], Tail(parts), value))

\* The values set is called with, typed as TriblerConfig declares the option.
SetValues(option) ==
    CASE option = <<"statistics">> -> BOOLEAN
      [] option = <<"ipv8">> -> {[interfaces |-> << [interface |-> "UDPIPv6"] >>]}
      [] option = <<"ipv8", "interfaces">> -> {<< [interface |-> "UDPIPv6"] >>}
      [] option = <<"libtorrent">> -> {[socks_listen_ports |-> <<1>>, port |-> 1]}
      [] option = <<"libtorrent", "socks_listen_ports">> -> {<<1>>}
      [] option = <<"libtorrent", "port">> -> {1}
      [] option = <<"tunnel_community">> ->
             {[enabled |-> FALSE, min_circuits |-> 2, max_circuits |-> 2]}
      [] option = <<"tunnel_community", "enabled">> -> {FALSE}
      [] option = <<"tunnel_community", "min_circuits">> -> {2}
      [] option = <<"tunnel_community", "max_circuits">> -> {4}
      [] OTHER -> {DEFAULT_CONFIG_VALUE}

\* TriblerConfigManager.set(option, value), lines 272-279.
TriblerConfigManager_set ==
    /\ pc \in {"manager", "set"}
    /\ set_calls < MaxSets
    /\ \E option \in Options : \E value \in SetValues(option) :
        /\ set_option' = option
        /\ set_value' = value
        /\ set_before' = [configuration |-> configuration,
                          DEFAULT_CONFIG |-> DEFAULT_CONFIG]
        /\ set_calls' = set_calls + 1
        /\ raised' = SetError(configuration, option)
        /\ IF raised' = None
           THEN /\ WriteConfiguration(SetLoop(configuration, option, value))
                /\ pc' = "set"
           ELSE /\ UNCHANGED config_vars
                /\ pc' = "set_failed"
    /\ UNCHANGED <<get_vars, file_vars, main_vars, tunnel_vars, gui_vars,
                   rust_available, INTERFACES, context, socks_servers, ipv8,
                   download_manager, loader, rest_manager, globals, idx, phase,
                   trace>>

\* The managers set is called on: one that was created without a stored
\* file, one whose file holds every section, one whose file lacks the ipv8
\* section and one whose tunnel_community section lacks a key.
SetConfigurations ==
    LET full == Written("statistics") @@ Written("libtorrent")
                    @@ Written("ipv8") @@ Written("tunnel_community")
    IN  {[conf |-> DEFAULT_CONFIG_VALUE, aliased |-> TRUE],
         [conf |-> full, aliased |-> FALSE],
         [conf |-> Written("statistics") @@ Written("libtorrent")
                       @@ Written("tunnel_community"), aliased |-> FALSE]}
        \cup {[conf |-> Written("statistics") @@ Written("libtorrent")
                            @@ Written("ipv8") @@ t, aliased |-> FALSE] :
                 t \in StoredTunnel}

InitSet ==
    /\ DEFAULT_CONFIG = DEFAULT_CONFIG_VALUE
    /\ \E c \in SetConfigurations :
        /\ configuration = c.conf
        /\ configuration0 = c.conf
        /\ aliased = c.aliased
    /\ config_file = [kind |-> None]
    /\ NoSession
    /\ NoSet
    /\ NoMain
    /\ NoTunnel
    /\ NoGui
    /\ get_option = <<>>
    /\ get_result = None
    /\ rust_available = FALSE
    /\ pc = "manager"

NextSet ==
    \/ TriblerConfigManager_set
    \/ TriblerConfigManager_get

SpecSet == InitSet /\ [][NextSet]_vars

-----------------------------------------------------------------------------
(* The tunnel subsystem: the circuit pool of the Circuit Manager and the   *)
(* connections of the SOCKS bridge.  Their code is not part of the files   *)
(* under src/ (session.py only registers TunnelComponent and constructs    *)
(* the Socks5Server objects); they are modelled from sections 3, 4.3 and   *)
(* 4.4 of the specification.  All handlers run on one cooperative event    *)
(* loop, so each is one atomic step.                                       *)

\* The hop-count tiers that are requested: one hop and two hops.
Tiers == {1, 2}

\* How many live circuits may share a peer as their first hop.
FirstHopReuseLimit == 1

Range(seq) == {seq[i] : i \in 1..Len(seq)}

\* tunnel_community/min_circuits and tunnel_community/max_circuits.
min_circuits == ConfigGet(<<"tunnel_community", "min_circuits">>)

max_circuits == ConfigGet(<<"tunnel_community", "max_circuits">>)

\* A slot of the pool that holds no circuit yet.
FreeSlot ==
    [state |-> "CLOSED", target |-> 0, hops |-> <<>>, pending |-> 0, bound |-> {},
     failed |-> FALSE]

\* A circuit that reached CLOSED: its hops are gone, nothing is bound to
\* it, and its slot remembers whether an extension failure closed it.
Closed(circuit, failed) ==
    [state |-> "CLOSED", target |-> 0, hops |-> <<>>, pending |-> 0,
     bound |-> {}, failed |-> failed]

NoConnection == [state |-> "none", tier |-> 0, rebinds |-> 0, broken |-> FALSE]

ReadyCircuits(t) ==
    {c \in DOMAIN circuits : circuits[c].state = "READY" /\ circuits[c].target = t}

BuildingCircuits(t) ==
    {c \in DOMAIN circuits : circuits[c].state = "EXTENDING" /\ circuits[c].target = t}

\* The circuits of a tier that are usable or on their way to be.
PoolSize(t) == Cardinality(ReadyCircuits(t)) + Cardinality(BuildingCircuits(t))

\* The peer a circuit has, or has asked, as its first hop.
FirstHop(circuit) ==
    IF circuit.hops # <<>> THEN circuit.hops[1] ELSE circuit.pending

\* Step 1 of the build protocol: the peers still allowed as a first hop.
FirstCandidates ==
    {p \in peers :
        Cardinality({c \in DOMAIN circuits :
                        circuits[c].state # "CLOSED" /\ FirstHop(circuits[c]) = p})
            < FirstHopReuseLimit}

\* Variant: any known peer may extend a circuit, also one already in it.
NextCandidates_any(circuit) == peers

\* Step 2 of the build protocol: the peers not yet present in the circuit.
NextCandidates(circuit) == peers \ Range(circuit.hops)

\* The slot a new circuit is put in.
FreeSlots == {c \in DOMAIN circuits : circuits[c].state = "CLOSED"}

NewSlot == CHOOSE c \in FreeSlots : \A d \in FreeSlots : c <= d

\* Variant: builds are started whenever fewer than min_circuits circuits are
\* READY, neither the builds in progress nor max_circuits are looked at.
NeedsBuild_ready_only(t) == Cardinality(ReadyCircuits(t)) < min_circuits

\* Pool maintenance: a tier below min_circuits is repaired, builds in
\* progress included, and the tier never goes beyond max_circuits.
NeedsBuild(t) == PoolSize(t) < min_circuits /\ PoolSize(t) < max_circuits

\* Pool maintenance initiates one build for tier t: a create cell goes to
\* the first candidate.
pool_maintenance_build(t) ==
    /\ pc = "tunnel"
    /\ NeedsBuild(t)
    /\ FreeSlots # {}
    /\ \E p \in FirstCandidates :
        circuits' = [circuits EXCEPT ![NewSlot] =
                        [state |-> "EXTENDING", target |-> t, hops |-> <<>>, pending |-> p,
                         bound |-> {}, failed |-> FALSE]]
    /\ UNCHANGED <<config_vars, get_vars, file_vars, set_vars, main_vars,
                   gui_vars, session_vars, peers, connections>>

\* An EXTENDING circuit with no cell outstanding picks the next peer and
\* sends it an extend cell through the hops it has.
circuit_extend(c) ==
    /\ pc = "tunnel"
    /\ circuits[c].state = "EXTENDING"
    /\ circuits[c].pending = 0
    /\ \E p \in NextCandidates(circuits[c]) :
        circuits' = [circuits EXCEPT ![c].pending = p]
    /\ UNCHANGED <<config_vars, get_vars, file_vars, set_vars, main_vars,
                   gui_vars, session_vars, peers, connections>>

\* No eligible peer is left to extend with: the build is given up.
circuit_no_candidate(c) ==
    /\ pc = "tunnel"
    /\ circuits[c].state = "EXTENDING"
    /\ circuits[c].pending = 0
    /\ NextCandidates(circuits[c]) = {}
    /\ circuits' = [circuits EXCEPT ![c] = Closed(@, TRUE)]
    /\ UNCHANGED <<config_vars, get_vars, file_vars, set_vars, main_vars,
                   gui_vars, session_vars, peers, connections>>

\* The circuit once the hop of the pending peer is appended: READY at the
\* target hop count, EXTENDING below it.
WithHop(circuit) ==
    LET hops == Append(circuit.hops, circuit.pending)
    IN  [circuit EXCEPT !.hops = hops, !.pending = 0,
                        !.state = IF Len(hops) = circuit.target THEN "READY"
                                  ELSE "EXTENDING"]

\* A valid created / extended cell arrives from the pending peer.
circuit_extended(c) ==
    /\ pc = "tunnel"
    /\ circuits[c].state = "EXTENDING"
    /\ circuits[c].pending # 0
    /\ circuits' = [circuits EXCEPT ![c] = WithHop(@)]
    /\ UNCHANGED <<config_vars, get_vars, file_vars, set_vars, main_vars,
                   gui_vars, session_vars, peers, connections>>

\* Variant: after a failed extension a circuit that has hops is used as it
\* is, with fewer hops than its target.
AfterFailedExtension_shortened(circuit) ==
    IF circuit.hops # <<>>
    THEN [circuit EXCEPT !.state = "READY", !.pending = 0, !.failed = TRUE]
    ELSE Closed(circuit, TRUE)

\* Step 3 of the build protocol: the circuit is abandoned.
AfterFailedExtension(circuit) == Closed(circuit, TRUE)

\* The hop times out, or its response is malformed or fails verification.
circuit_extension_failed(c) ==
    /\ pc = "tunnel"
    /\ circuits[c].state = "EXTENDING"
    /\ circuits[c].pending # 0
    /\ circuits' = [circuits EXCEPT ![c] = AfterFailedExtension(@)]
    /\ UNCHANGED <<config_vars, get_vars, file_vars, set_vars, main_vars,
                   gui_vars, session_vars, peers, connections>>

\* Variant: the bridge resets the connections of a lost circuit at once.
OnCircuitLost_reset(c) ==
    [k \in DOMAIN connections |->
        IF k \in circuits[c].bound
        THEN [connections[k] EXCEPT !.state = "reset", !.rebinds = 0, !.broken = TRUE]
        ELSE connections[k]]

\* The bridge learns that circuit c left READY: the connections bound to it
\* are unregistered from it and owe one rebind attempt.
OnCircuitLost(c) ==
    [k \in DOMAIN connections |->
        IF k \in circuits[c].bound
        THEN [connections[k] EXCEPT !.state = "rebinding", !.rebinds = 0, !.broken = TRUE]
        ELSE connections[k]]

\* A READY circuit starts to break (a corrupt or replayed cell, a destroy).
circuit_break(c) ==
    /\ pc = "tunnel"
    /\ circuits[c].state = "READY"
    /\ circuits' = [circuits EXCEPT ![c].state = "BREAKING", ![c].bound = {}]
    /\ connections' = OnCircuitLost(c)
    /\ UNCHANGED <<config_vars, get_vars, file_vars, set_vars, main_vars,
                   gui_vars, session_vars, peers>>

\* A READY circuit is closed directly (inactivity, peer timeout), a
\* BREAKING one reaches CLOSED.
circuit_close(c) ==
    /\ pc = "tunnel"
    /\ circuits[c].state \in {"READY", "BREAKING"}
    /\ circuits' = [circuits EXCEPT ![c] = Closed(@, FALSE)]
    /\ connections' = OnCircuitLost(c)
    /\ UNCHANGED <<config_vars, get_vars, file_vars, set_vars, main_vars,
                   gui_vars, session_vars, peers>>

\* The circuit a connection is registered on, 0 when on none.
BoundCircuit(k) ==
    LET on == {c \in DOMAIN circuits : k \in circuits[c].bound}
    IN  IF on = {} THEN 0 ELSE CHOOSE c \in on : TRUE

\* Connection k, in the given state, either is registered on a READY circuit
\* of its tier or, when none is READY, waits in the state `otherwise`.
SelectCircuit(k, conn, otherwise) ==
    IF ReadyCircuits(conn.tier) # {}
    THEN \E c \in ReadyCircuits(conn.tier) :
            /\ circuits' = [circuits EXCEPT ![c].bound = @ \cup {k}]
            /\ connections' = [connections EXCEPT ![k] = [conn EXCEPT !.state = "bound"]]
    ELSE /\ connections' = [connections EXCEPT ![k] = [conn EXCEPT !.state = otherwise]]
         /\ UNCHANGED circuits

\* The slot a new connection is allocated in.
FreeConnections == {k \in DOMAIN connections : connections[k].state = "none"}

\* A listener accepts a connection of the local engine that asks for tier t.
socks_accept(k, t) ==
    /\ pc = "tunnel"
    /\ k \in FreeConnections
    /\ \A j \in FreeConnections : k <= j
    /\ SelectCircuit(k, [state |-> "none", tier |-> t, rebinds |-> 0, broken |-> FALSE],
                     "queued")
    /\ UNCHANGED <<config_vars, get_vars, file_vars, set_vars, main_vars,
                   gui_vars, session_vars, peers>>

\* The one rebind attempt after the bound circuit was lost.
socks_rebind(k) ==
    /\ pc = "tunnel"
    /\ connections[k].state = "rebinding"
    /\ SelectCircuit(k, [connections[k] EXCEPT !.rebinds = @ + 1], "waiting")
    /\ UNCHANGED <<config_vars, get_vars, file_vars, set_vars, main_vars,
                   gui_vars, session_vars, peers>>

\* A circuit of the tier became READY while the connection was queued.
socks_bind_queued(k) ==
    /\ pc = "tunnel"
    /\ connections[k].state \in {"queued", "waiting"}
    /\ ReadyCircuits(connections[k].tier) # {}
    /\ SelectCircuit(k, connections[k], connections[k].state)
    /\ UNCHANGED <<config_vars, get_vars, file_vars, set_vars, main_vars,
                   gui_vars, session_vars, peers>>

\* The queuing timeout expires: the failure is signalled to the local
\* engine as a connection reset.
socks_timeout(k) ==
    /\ pc = "tunnel"
    /\ connections[k].state \in {"queued", "waiting"}
    /\ connections' = [connections EXCEPT ![k].state = "reset"]
    /\ UNCHANGED <<config_vars, get_vars, file_vars, set_vars, main_vars,
                   gui_vars, session_vars, peers, circuits>>

\* The connection ends: the local engine closes it, or it was reset.
socks_close(k) ==
    /\ pc = "tunnel"
    /\ connections[k].state \in {"bound", "reset"}
    /\ connections' = [connections EXCEPT ![k] = NoConnection]
    /\ circuits' = [c \in DOMAIN circuits |->
                       [circuits[c] EXCEPT !.bound = @ \ {k}]]
    /\ UNCHANGED <<config_vars, get_vars, file_vars, set_vars, main_vars,
                   gui_vars, session_vars, peers>>

\* The tunnel_community sections a stored configuration.json holds.
TunnelSections ==
    StoredTunnel \cup {"tunnel_community" :> [enabled |-> TRUE, max_circuits |-> 1]}

\* The configurations the tunnel community runs with: the defaults and the
\* written defaults with another tunnel_community section.
TunnelConfigurations ==
    {[conf |-> DEFAULT_CONFIG_VALUE, aliased |-> TRUE]}
    \cup {[conf |-> Written("statistics") @@ Written("libtorrent") @@ Written("ipv8") @@ t,
           aliased |-> FALSE] : t \in TunnelSections}

\* The tunnel community is loaded: the pool is empty, no connection is
\* accepted yet, and the overlay knows some peers.
InitTunnel ==
    /\ DEFAULT_CONFIG = DEFAULT_CONFIG_VALUE
    /\ \E c \in TunnelConfigurations :
        /\ configuration = c.conf
        /\ configuration0 = c.conf
        /\ aliased = c.aliased
    /\ config_file = [kind |-> None]
    /\ NoSession
    /\ NoSet
    /\ NoMain
    /\ NoGui
    /\ get_option = <<>>
    /\ get_result = None
    /\ rust_available = FALSE
    /\ pc = "tunnel"
    /\ peers \in {1..n : n \in 1..MaxPeers}
    /\ circuits = [c \in 1..MaxCircuits |-> FreeSlot]
    /\ connections = [k \in 1..MaxConnections |-> NoConnection]

NextTunnel ==
    \/ \E t \in Tiers : pool_maintenance_build(t)
    \/ \E c \in DOMAIN circuits : circuit_extend(c)
    \/ \E c \in DOMAIN circuits : circuit_no_candidate(c)
    \/ \E c \in DOMAIN circuits : circuit_extended(c)
    \/ \E c \in DOMAIN circuits : circuit_extension_failed(c)
    \/ \E c \in DOMAIN circuits : circuit_break(c)
    \/ \E c \in DOMAIN circuits : circuit_close(c)
    \/ \E k \in DOMAIN connections, t \in Tiers : socks_accept(k, t)
    \/ \E k \in DOMAIN connections : socks_rebind(k)
    \/ \E k \in DOMAIN connections : socks_bind_queued(k)
    \/ \E k \in DOMAIN connections : socks_timeout(k)
    \/ \E k \in DOMAIN connections : socks_close(k)

SpecTunnel == InitTunnel /\ [][NextTunnel]_vars

\* The timers of the bridge: a rebind attempt that is owed is made, and the
\* timeout of a queued connection fires unless it is bound first.
FairBridge ==
    /\ \A k \in 1..MaxConnections : WF_vars(socks_rebind(k))
    /\ \A k \in 1..MaxConnections : WF_vars(socks_timeout(k))

SpecTunnelFair == SpecTunnel /\ FairBridge

\* The circuit pool on its own: no connection is accepted.
InitPool ==
    /\ DEFAULT_CONFIG = DEFAULT_CONFIG_VALUE
    /\ \E c \in TunnelConfigurations :
        /\ configuration = c.conf
        /\ configuration0 = c.conf
        /\ aliased = c.aliased
    /\ config_file = [kind |-> None]
    /\ NoSession
    /\ NoSet
    /\ NoMain
    /\ NoGui
    /\ get_option = <<>>
    /\ get_result = None
    /\ rust_available = FALSE
    /\ pc = "tunnel"
    /\ peers \in {1..n : n \in 1..MaxPeers}
    /\ circuits = [c \in 1..MaxCircuits |-> FreeSlot]
    /\ connections = <<>>

NextPool ==
    \/ \E t \in Tiers : pool_maintenance_build(t)
    \/ \E c \in DOMAIN circuits : circuit_extend(c)
    \/ \E c \in DOMAIN circuits : circuit_no_candidate(c)
    \/ \E c \in DOMAIN circuits : circuit_extended(c)
    \/ \E c \in DOMAIN circuits : circuit_extension_failed(c)
    \/ \E c \in DOMAIN circuits : circuit_break(c)
    \/ \E c \in DOMAIN circuits : circuit_close(c)

SpecPool == InitPool /\ [][NextPool]_vars

\* What "absent peer scarcity" and the timers give: pool maintenance runs
\* periodically, a cell that is owed is sent, the hop of every index of
\* every tier answers in time again and again, and a BREAKING circuit
\* reaches CLOSED.
FairPool ==
    /\ \A t \in Tiers : SF_vars(pool_maintenance_build(t))
    /\ WF_vars(\E c \in 1..MaxCircuits : circuit_extend(c))
    /\ \A t \in Tiers, n \in 0..1 :
           SF_vars(\E c \in 1..MaxCircuits :
                      /\ circuits[c].target = t
                      /\ Len(circuits[c].hops) = n
                      /\ circuit_extended(c))
    /\ \A c \in 1..MaxCircuits :
           WF_vars(circuits[c].state = "BREAKING" /\ circuit_close(c))

SpecPoolFair == SpecPool /\ FairPool

-----------------------------------------------------------------------------
(* The GUI side: CoreManager, which watches the core process.  Its code    *)
(* (tribler_gui/core_manager.py) is not part of the files under src/; it   *)
(* is modelled from tribler_gui/tests/test_core_manager.py.                *)

\* The exit codes and exit statuses the core process can finish with.
ExitCodes == 0..MaxExitCode

ExitStatuses == {"NormalExit", "CrashExit"}

\* The bytes the core process writes, and the character each decodes to.
OutputBytes == {97, 98}

Chr(b) == IF b = 97 THEN "a" ELSE "b"

\* bytes.decode(): the text of the raw output, character by character.
Decode(raw) == [i \in 1..Len(raw) |-> Chr(raw[i])]

\* CoreManager(...) as the tests construct it: no flag is set.
NewCoreManager ==
    [shutting_down |-> FALSE, should_stop_on_shutdown |-> FALSE, finished |-> FALSE,
     exit_code |-> 0, exit_status |-> None, on_finished_calls |-> 0, raised |-> None]

\* core_manager.shutting_down = True (test line 18).
CoreManager_set_shutting_down ==
    /\ pc = "gui"
    /\ ~core_manager.finished
    /\ ~core_manager.shutting_down
    /\ core_manager' = [core_manager EXCEPT !.shutting_down = TRUE]
    /\ UNCHANGED <<config_vars, get_vars, file_vars, set_vars, main_vars,
                   tunnel_vars, session_vars, printed>>

\* core_manager.should_stop_on_shutdown = True (test line 19).
CoreManager_set_should_stop_on_shutdown ==
    /\ pc = "gui"
    /\ ~core_manager.finished
    /\ ~core_manager.should_stop_on_shutdown
    /\ core_manager' = [core_manager EXCEPT !.should_stop_on_shutdown = TRUE]
    /\ UNCHANGED <<config_vars, get_vars, file_vars, set_vars, main_vars,
                   tunnel_vars, session_vars, printed>>

\* on_core_read_ready (test lines 35-44): the raw output of the core process
\* is decoded and printed behind a tab.
on_core_read_ready ==
    /\ pc = "gui"
    /\ ~core_manager.finished
    /\ Len(printed) < MaxPrinted
    /\ \E raw \in SeqsUpTo(OutputBytes, 1) \ {<<>>} :
        printed' = Append(printed, <<"\t">> \o Decode(raw))
    /\ UNCHANGED <<config_vars, get_vars, file_vars, set_vars, main_vars,
                   tunnel_vars, session_vars, core_manager>>

\* Variant: the error is raised only when the manager is not shutting down.
Crashed_not_shutting_down(cm, exit_code) == ~cm.shutting_down /\ exit_code # 0

\* Whether on_core_finished takes the finish for a crash: the exit code is
\* not zero and the manager is not in a shutdown it was asked to stop on.
Crashed(cm, exit_code) ==
    exit_code # 0 /\ ~(cm.shutting_down /\ cm.should_stop_on_shutdown)

\* on_core_finished(exit_code, exit_status).  With both flags set
\* on_finished is called (test lines 12-22); a crash raises CoreCrashedError
\* (test lines 25-32).  What a finish with exit code 0 does without both
\* flags is shown by no test: either outcome is possible.
on_core_finished ==
    /\ pc = "gui"
    /\ ~core_manager.finished
    /\ \E exit_code \in ExitCodes, exit_status \in ExitStatuses :
        LET cm == [core_manager EXCEPT !.finished = TRUE, !.exit_code = exit_code,
                                       !.exit_status = exit_status]
        IN  IF cm.shutting_down /\ cm.should_stop_on_shutdown
            THEN core_manager' = [cm EXCEPT !.on_finished_calls = @ + 1]
            ELSE IF Crashed(cm, exit_code)
            THEN core_manager' = [cm EXCEPT !.raised = "CoreCrashedError"]
            ELSE IF exit_code = 0
            THEN \E r \in {None, "CoreCrashedError"} :
                    core_manager' = [cm EXCEPT !.raised = r]
            ELSE core_manager' = cm
    /\ UNCHANGED <<config_vars, get_vars, file_vars, set_vars, main_vars,
                   tunnel_vars, session_vars, printed>>

InitGui ==
    /\ DEFAULT_CONFIG = DEFAULT_CONFIG_VALUE
    /\ configuration = DEFAULT_CONFIG_VALUE
    /\ configuration0 = DEFAULT_CONFIG_VALUE
    /\ aliased = TRUE
    /\ config_file = [kind |-> None]
    /\ NoSession
    /\ NoSet
    /\ NoMain
    /\ NoTunnel
    /\ get_option = <<>>
    /\ get_result = None
    /\ rust_available = FALSE
    /\ pc = "gui"
    /\ core_manager = NewCoreManager
    /\ printed = <<>>

NextGui ==
    \/ CoreManager_set_shutting_down
    \/ CoreManager_set_should_stop_on_shutdown
    \/ on_core_read_ready
    \/ on_core_finished

SpecGui == InitGui /\ [][NextGui]_vars

-----------------------------------------------------------------------------
(* run_tribler: the entry point of the core process and of the GUI. *)

\* Python values of the two types log_level can have.
PyStr(value) == [type |-> "str", value |-> value]
PyBool(value) == [type |-> "bool", value |-> IF value THEN "True" ELSE "False"]

\* The arguments of the model: the two options the parser declares, an
\* option with an explicit value, an option it does not declare, and two
\* words that are no options.
ArgTokens ==
    {"--core", "--log-level", "--log-level=DEBUG", "--unknown", "DEBUG", "a.torrent"}

CommandLines == SeqsUpTo(ArgTokens, MaxArgs)

\* The arguments argparse takes for positionals.
Positionals(args) ==
    SelectSeq(args, LAMBDA a : a \in {"DEBUG", "a.torrent"})

\* parser.parse_args() returns: every option is one of the two declared
\* store_true options (which take no value), and there is at most one
\* positional, for torrent (nargs='?').  Otherwise it exits with status 2.
Accepted(args) ==
    /\ \A i \in 1..Len(args) : args[i] \notin {"--log-level=DEBUG", "--unknown"}
    /\ Len(Positionals(args)) <= 1

\* vars(parser.parse_args()), lines 29-34: log_level has the default "INFO",
\* and store_true stores True when --log-level is given.
ParsedArguments(args) ==
    [state |-> "parsed",
     torrent |-> IF Positionals(args) = <<>> THEN "" ELSE Positionals(args)[1],
     core |-> \E i \in 1..Len(args) : args[i] = "--core",
     log_level |-> IF \E i \in 1..Len(args) : args[i] = "--log-level"
                   THEN PyBool(TRUE)
                   ELSE PyStr("INFO")]

\* The names of the levels of the logging module.
LoggingLevels == {"CRITICAL", "ERROR", "WARNING", "INFO", "DEBUG", "NOTSET"}

\* The exception of getattr(logging, name) ("None" if none).
GetAttrError(name) ==
    IF name.type # "str" THEN "TypeError"
    ELSE IF name.value \notin LoggingLevels THEN "AttributeError"
    ELSE None

\* parse_args(), line 53.
parse_args ==
    /\ pc = "main"
    /\ IF Accepted(argv)
       THEN /\ parsed_args' = ParsedArguments(argv)
            /\ pc' = "parsed"
            /\ UNCHANGED raised
       ELSE /\ raised' = "SystemExit"
            /\ pc' = "exited"
            /\ UNCHANGED parsed_args
    /\ UNCHANGED <<config_vars, get_vars, file_vars, set_vars, tunnel_vars,
                   gui_vars, rust_available, INTERFACES, context, socks_servers,
                   ipv8, download_manager, loader, rest_manager, globals, idx,
                   phase, trace, argv, logging_level, launched>>

\* logging.basicConfig(level=getattr(logging, parsed_args["log_level"])),
\* line 54.
logging_basicConfig ==
    /\ pc = "parsed"
    /\ LET exc == GetAttrError(parsed_args.log_level)
       IN  IF exc = None
           THEN /\ logging_level' = parsed_args.log_level.value
                /\ pc' = "configured"
                /\ UNCHANGED raised
           ELSE /\ raised' = exc
                /\ pc' = "main_failed"
                /\ UNCHANGED logging_level
    /\ UNCHANGED <<config_vars, get_vars, file_vars, set_vars, tunnel_vars,
                   gui_vars, rust_available, INTERFACES, context, socks_servers,
                   ipv8, download_manager, loader, rest_manager, globals, idx,
                   phase, trace, argv, parsed_args, launched>>

\* Lines 57-69, with a state directory that can be created and a numeric
\* CORE_API_PORT: run_core when --core was given, run_gui otherwise.
main_run ==
    /\ pc = "configured"
    /\ launched' = Append(launched, IF parsed_args.core THEN "run_core" ELSE "run_gui")
    /\ pc' = "running"
    /\ UNCHANGED <<config_vars, get_vars, file_vars, set_vars, tunnel_vars,
                   gui_vars, rust_available, INTERFACES, context, socks_servers,
                   ipv8, download_manager, loader, rest_manager, globals, idx,
                   phase, raised, trace, argv, parsed_args, logging_level>>

InitMain ==
    /\ DEFAULT_CONFIG = DEFAULT_CONFIG_VALUE
    /\ configuration = EmptyDict
    /\ configuration0 = EmptyDict
    /\ aliased = FALSE
    /\ config_file = [kind |-> None]
    /\ NoSession
    /\ NoSet
    /\ NoTunnel
    /\ NoGui
    /\ get_option = <<>>
    /\ get_result = None
    /\ rust_available = FALSE
    /\ argv \in CommandLines
    /\ parsed_args = [state |-> None]
    /\ logging_level = None
    /\ launched = <<>>
    /\ pc = "main"

NextMain ==
    \/ parse_args
    \/ logging_basicConfig
    \/ main_run

SpecMain == InitMain /\ [][NextMain]_vars

-----------------------------------------------------------------------------
(* Properties of Session.start and Session.shutdown. *)

\* Position of the first event (ev, sub, i) in the trace, 0 when absent.
Pos(ev, sub, i) ==
    LET e == [ev |-> ev, sub |-> sub, i |-> i]
        at == {n \in 1..Len(trace) : trace[n] = e}
    IN  IF at = {} THEN 0 ELSE CHOOSE n \in at : \A m \in at : n <= m

Happened(ev, sub, i) ==
    LET e == [ev |-> ev, sub |-> sub, i |-> i]
    IN  \E n \in 1..Len(trace) : trace[n] = e

\* a happened, and before b did.
Before(a, b) == a > 0 /\ a < b

IsStopCall(e) == e.ev \in {"stop", "stop_raised"}

\* The stop calls shutdown has made so far, in order.
StopCalls == SelectSeq(trace, IsStopCall)

\* C1: whenever the REST API is running, every SOCKS listener was started,
\* then the download engine was initialized and started, then the launchers
\* were registered and loaded, then the overlay was started, and the REST
\* manager was started after all of them; no start call follows it.
C1_StartOrder ==
    rest_manager.state = "running" =>
        /\ \A i \in 1..Len(socks_servers) :
               Before(Pos("start", "socks", i), Pos("initialize", "download_manager", 0))
        /\ \A i \in 1..(Len(socks_servers) - 1) :
               Before(Pos("start", "socks", i), Pos("start", "socks", i + 1))
        /\ Before(Pos("initialize", "download_manager", 0), Pos("start", "download_manager", 0))
        /\ Before(Pos("start", "download_manager", 0), Pos("register", "loader", 0))
        /\ Before(Pos("register", "loader", 0), Pos("load", "loader", 0))
        /\ Before(Pos("load", "loader", 0), Pos("start", "ipv8", 0))
        /\ Before(Pos("start", "ipv8", 0), Pos("start", "rest_manager", 0))
        /\ \A n \in 1..Len(trace) :
               trace[n].ev = "start" => n <= Pos("start", "rest_manager", 0)

C1_Witness ==
    /\ pc = "started"
    /\ rest_manager.state = "running"
    /\ Len(socks_servers) >= 2

\* C2 (as claimed): once shutdown is over, the stop of every subsystem the
\* session holds was attempted, whatever earlier stop raised.
C2_EveryStopAttempted ==
    pc \in {"stopped", "shutdown_failed"} =>
        /\ \A ph \in {"ipv8", "download_manager", "rest_manager"} :
               \E n \in 1..Len(trace) : IsStopCall(trace[n]) /\ trace[n].sub = ph
        /\ \A ph \in {"torrent_checker", "db", "mds"} :
               globals[ph] # None =>
                   \E n \in 1..Len(trace) : IsStopCall(trace[n]) /\ trace[n].sub = ph
        /\ \A i \in 1..Len(socks_servers) :
               \E n \in 1..Len(trace) :
                   IsStopCall(trace[n]) /\ trace[n].sub = "socks" /\ trace[n].i = i

\* Rank of a subsystem in the order in which start brings them up.
StartRank(sub) ==
    CASE sub = "socks"            -> 1
      [] sub = "download_manager" -> 2
      [] sub = "rest_manager"     -> 4
      [] OTHER                    -> 3

\* C3 (as claimed): the subsystems are stopped in the reverse of the order
\* in which they were started, the REST API first and the SOCKS listeners
\* last.
C3_ReverseOfStart ==
    \A n \in 1..(Len(StopCalls) - 1) :
        StartRank(StopCalls[n].sub) >= StartRank(StopCalls[n + 1].sub)

\* Rank of a subsystem in the order shutdown follows.
StopRank(sub) ==
    CASE sub = "torrent_checker"  -> 1
      [] sub = "ipv8"             -> 2
      [] sub = "download_manager" -> 3
      [] sub = "socks"            -> 4
      [] sub = "db"               -> 5
      [] sub = "mds"              -> 6
      [] sub = "rest_manager"     -> 7

\* C3 (amended): the stops are made in the order torrent checker, overlay,
\* download engine, SOCKS listeners (in list order), general-purpose
\* database, metadata database, REST manager; the REST manager, started
\* last, is also stopped last.
C3_StopOrder ==
    \A n \in 1..(Len(StopCalls) - 1) :
        \/ StopRank(StopCalls[n].sub) < StopRank(StopCalls[n + 1].sub)
        \/ /\ StopCalls[n].sub = "socks"
           /\ StopCalls[n + 1].sub = "socks"
           /\ StopCalls[n].i < StopCalls[n + 1].i

C3_Witness ==
    /\ pc = "stopped"
    /\ Len(socks_servers) >= 2
    /\ \A sub \in {"torrent_checker", "ipv8", "download_manager", "db", "mds", "rest_manager"} :
           Happened("stop", sub, 0)

\* C4: when loading the components raised, start has ended with that error,
\* and as long as nobody tears the session down the SOCKS listeners and the
\* download engine are still running; the overlay and the REST API are not
\* started in that run, then or later.
C4_LoadFailureAborts ==
    Happened("raised", "loader", 0) =>
        /\ pc # "started"
        /\ pc = "start_failed" =>
               /\ raised = "ComponentError"
               /\ \A i \in 1..Len(socks_servers) : socks_servers[i].state = "running"
               /\ download_manager.state = "running"
        /\ ~Happened("start", "ipv8", 0)
        /\ ~Happened("start", "rest_manager", 0)
        /\ ipv8.state # "running"
        /\ rest_manager.state # "running"

C4_Witness ==
    /\ pc = "start_failed"
    /\ raised = "ComponentError"
    /\ Len(socks_servers) >= 1

\* The notification text of each subsystem.
PhaseText(sub) ==
    CASE sub = "torrent_checker"  -> "Shutting down torrent checker."
      [] sub = "ipv8"             -> "Shutting down IPv8 peer-to-peer overlays."
      [] sub = "download_manager" -> "Shutting down download manager."
      [] sub = "socks"            -> "Shutting down local SOCKS5 interface."
      [] sub = "db"               -> "Shutting down general-purpose database."
      [] sub = "mds"              -> "Shutting down metadata database."
      [] sub = "rest_manager"     -> "Shutting down GUI connection. Going dark."

\* C5: every stop call of shutdown comes after the notification of its own
\* phase, and nothing but stop calls of that same phase lies between the
\* two: the notification follows the stops of the phases before it.
C5_NotifiedBeforeStop ==
    \A n \in 1..Len(trace) :
        IsStopCall(trace[n]) =>
            \E m \in 1..(n - 1) :
                /\ trace[m] = [ev |-> "notify", sub |-> PhaseText(trace[n].sub), i |-> 0]
                /\ \A k \in (m + 1)..(n - 1) :
                       IsStopCall(trace[k]) /\ trace[k].sub = trace[n].sub

C5_Witness ==
    /\ pc = "stopped"
    /\ Len(socks_servers) >= 2
    /\ Happened("stop", "torrent_checker", 0)
    /\ Happened("stop", "mds", 0)
    /\ ~Happened("stop", "db", 0)

-----------------------------------------------------------------------------
(* Properties of the transport selection made by Session.__init__. *)

\* The UDPIPv4 entries of ipv8/interfaces as the configuration answers now.
UDPIPv4Entries ==
    LET ifcs == ConfigGet(<<"ipv8", "interfaces">>)
    IN  {ifcs[i] : i \in {j \in 1..Len(ifcs) : ifcs[j]["interface"] = "UDPIPv4"}}

FullyInstalled ==
    /\ INTERFACES = "RustEndpoint"
    /\ \A ifc \in UDPIPv4Entries : "worker_threads" \in DOMAIN ifc
    /\ \A i \in 1..Len(socks_servers) : socks_servers[i].rust_endpoint = "RustEndpoint"

FullyAbsent ==
    /\ INTERFACES = "UDPEndpoint"
    /\ \A ifc \in UDPIPv4Entries : "worker_threads" \notin DOMAIN ifc
    /\ \A i \in 1..Len(socks_servers) : socks_servers[i].rust_endpoint = None

\* C6 (as claimed): when the construction of a Session has ended, normally
\* or with an error, the accelerated endpoint is either fully installed or
\* fully absent.
C6_NeverPartial ==
    pc \in {"constructed", "init_failed"} => (FullyInstalled \/ FullyAbsent)

\* C7 (as claimed): an overlay constructed without the accelerated endpoint
\* sees no worker_threads key in any UDPIPv4 interface entry, and the
\* fallback over the stored interface entries ends without an error,
\* whether or not they held the key.
C7_FallbackStripsKey ==
    /\ (ipv8.state # None /\ ipv8.endpoint # "RustEndpoint"
            /\ "interfaces" \in DOMAIN ipv8.configuration) =>
           \A i \in 1..Len(ipv8.configuration["interfaces"]) :
               ipv8.configuration["interfaces"][i]["interface"] = "UDPIPv4" =>
                   "worker_threads" \notin DOMAIN ipv8.configuration["interfaces"][i]
    /\ (context = "fallback" /\ HasStoredInterfaces) => raised # "KeyError"

-----------------------------------------------------------------------------
(* Properties of the configuration. *)

\* Every component of the option is present in the dict d.
RECURSIVE IsStored(_, _)
IsStored(d, parts) ==
    \/ parts = <<>>
    \/ /\ Head(parts) \in DOMAIN d
       /\ IsStored(d[Head(parts)], Tail(parts))

\* The value at the full path in d.
RECURSIVE ValueAt(_, _)
ValueAt(d, parts) ==
    IF parts = <<>> THEN d ELSE ValueAt(d[Head(parts)], Tail(parts))

\* C8: get returns the stored value when every component of the option is
\* present in the loaded configuration, and the value of the defaults at
\* the same full path otherwise.
C8_StoredElseDefault ==
    pc = "got" =>
        get_result = IF IsStored(configuration, get_option)
                     THEN ValueAt(configuration, get_option)
                     ELSE ValueAt(DEFAULT_CONFIG, get_option)

\* A stored value that differs from the default has been read, and so has a
\* key that is missing from a stored section.
C8_Witness ==
    /\ pc = "got"
    /\ "tunnel_community" \in DOMAIN configuration
    /\ \/ get_option = <<"tunnel_community", "max_circuits">> /\ get_result = 2
       \/ get_option = <<"tunnel_community", "min_circuits">> /\ get_result = 1
    /\ ~aliased

\* What get answered for the option when the Session was constructed.
InitialGet(option) == get(configuration0, DEFAULT_CONFIG_VALUE, option)

\* C9 (as claimed): whatever the session has done, get answers every option
\* as it did before.
C9_NeverWrites ==
    \A option \in Options : ConfigGet(option) = InitialGet(option)

\* The options whose value holds the interface entries of the overlay.
InterfaceOptions == {<<>>, <<"ipv8">>, <<"ipv8", "interfaces">>}

WithoutWorkerThreads(ifc) == [k \in DOMAIN ifc \ {"worker_threads"} |-> ifc[k]]

\* C9 (amended): the construction of a Session changes nothing but the
\* worker_threads key of the UDPIPv4 entries of ipv8/interfaces, so get
\* answers every option that does not hold these entries as before; start
\* and shutdown leave the whole configuration and the defaults alone.
C9_OnlyWorkerThreads ==
    /\ [](/\ \A option \in Options \ InterfaceOptions :
                 ConfigGet(option) = InitialGet(option)
          /\ LET new == ConfigGet(<<"ipv8", "interfaces">>)
                 old == InitialGet(<<"ipv8", "interfaces">>)
             IN  /\ Len(new) = Len(old)
                 /\ \A i \in 1..Len(old) :
                        IF old[i]["interface"] = "UDPIPv4"
                        THEN WithoutWorkerThreads(new[i]) = WithoutWorkerThreads(old[i])
                        ELSE new[i] = old[i])
    /\ [][pc \notin {"new", "enter", "construct_ipv8", "exit", "init_rest"}
              => /\ configuration' = configuration
                 /\ DEFAULT_CONFIG' = DEFAULT_CONFIG]_vars

\* A session that changed worker_threads has been started and shut down.
C9_Witness ==
    /\ pc = "stopped"
    /\ ConfigGet(<<"ipv8", "interfaces">>) # InitialGet(<<"ipv8", "interfaces">>)

-----------------------------------------------------------------------------
(* Properties of the registration of the launchers. *)

\* Position at which a launcher was registered with the loader, 0 when it
\* was not.
LauncherIndex(name) ==
    LET at == {i \in 1..Len(loader.launchers) : loader.launchers[i] = name}
    IN  IF at = {} THEN 0 ELSE CHOOSE i \in at : \A j \in at : i <= j

\* C11 as stated: once the launchers are registered, the tunnel component
\* was registered before the torrent checker component, and when the
\* components are loaded they were registered in that order before.
C11_TunnelBeforeTorrentChecker ==
    loader.launchers # <<>> =>
        /\ LauncherIndex("TunnelComponent") > 0
        /\ LauncherIndex("TunnelComponent") < LauncherIndex("TorrentCheckerComponent")
        /\ loader.loaded => Before(Pos("register", "loader", 0), Pos("load", "loader", 0))

\* C11 amended: the launchers are registered in one fixed order, each once
\* and all before load is called; in that order the torrent checker
\* component comes right before the tunnel component, which is the last.
C11_RegistrationOrder ==
    /\ loader.launchers # <<>> =>
        /\ Len(loader.launchers) = 7
        /\ \A i, j \in 1..Len(loader.launchers) :
               loader.launchers[i] = loader.launchers[j] => i = j
        /\ LauncherIndex("DatabaseComponent") = 2
        /\ LauncherIndex("TorrentCheckerComponent") = 6
        /\ LauncherIndex("TunnelComponent") = 7
    /\ Happened("load", "loader", 0) =>
        /\ loader.launchers # <<>>
        /\ Before(Pos("register", "loader", 0), Pos("load", "loader", 0))
    /\ Happened("raised", "loader", 0) => loader.launchers # <<>>

C11_Witness ==
    /\ loader.loaded
    /\ Happened("load", "loader", 0)
    /\ LauncherIndex("TorrentCheckerComponent") < LauncherIndex("TunnelComponent")

\* The stop calls made so far on one subsystem.
StopCallsOf(sub) == {n \in 1..Len(trace) : IsStopCall(trace[n]) /\ trace[n].sub = sub}

\* C12 as stated: the registered components are stopped under shutdown by
\* the stop of the overlay they were loaded into (lines 154-156) and by the
\* stop of the objects they left in the session.  Once shutdown is over
\* after a load, each of these stops was invoked exactly once, whatever
\* stop failed, the torrent checker (registered sixth) before the database
\* (registered second).
C12_EveryComponentStoppedOnce ==
    (pc \in {"stopped", "shutdown_failed"} /\ loader.loaded) =>
        /\ Cardinality(StopCallsOf("ipv8")) = 1
        /\ \A sub \in {"torrent_checker", "db", "mds"} :
               globals[sub] # None => Cardinality(StopCallsOf(sub)) = 1
        /\ (globals.torrent_checker # None /\ globals.db # None) =>
               \A n \in StopCallsOf("torrent_checker"), m \in StopCallsOf("db") : n < m

\* C18: the download manager has no SOCKS ports until they are assigned;
\* they are assigned after every SOCKS listener was started and before the
\* download manager is initialized, and from then on they are the ports of
\* the session's listeners, one per listener and in the same order.
C18_PortsAfterListeners ==
    IF Happened("set_ports", "download_manager", 0)
    THEN /\ \A i \in 1..Len(socks_servers) :
                Before(Pos("start", "socks", i), Pos("set_ports", "download_manager", 0))
         /\ Len(download_manager.socks_listen_ports) = Len(socks_servers)
         /\ \A i \in 1..Len(socks_servers) :
                download_manager.socks_listen_ports[i] = socks_servers[i].port
         /\ Happened("initialize", "download_manager", 0) =>
                Before(Pos("set_ports", "download_manager", 0),
                       Pos("initialize", "download_manager", 0))
    ELSE /\ download_manager.socks_listen_ports = <<>>
         /\ ~Happened("initialize", "download_manager", 0)
         /\ ~Happened("start", "download_manager", 0)

\* The ports of two or more started listeners were assigned and the
\* download manager was initialized.
C18_Witness ==
    /\ Len(socks_servers) >= 2
    /\ Happened("set_ports", "download_manager", 0)
    /\ download_manager.state = "initialized"
    /\ Len(download_manager.socks_listen_ports) = Len(socks_servers)

\* C19: RustEndpoint is registered only when statistics is disabled and
\* ipv8_rust_tunnels can be imported; an overlay that was constructed with
\* it was handed a configuration in which every UDPIPv4 interface entry has
\* worker_threads equal to tunnel_community/max_circuits.
C19_AcceleratedTransport ==
    /\ INTERFACES = "RustEndpoint" =>
           /\ ~ConfigGet(<<"statistics">>)
           /\ rust_available
    /\ (ipv8.state # None /\ ipv8.endpoint = "RustEndpoint") =>
           /\ INTERFACES = "RustEndpoint"
           /\ \A i \in 1..Len(ipv8.configuration["interfaces"]) :
                  LET ifc == ipv8.configuration["interfaces"][i]
                  IN  ifc["interface"] = "UDPIPv4" =>
                          /\ "worker_threads" \in DOMAIN ifc
                          /\ ifc["worker_threads"] =
                                 ConfigGet(<<"tunnel_community", "max_circuits">>)

\* The overlay was constructed with RustEndpoint from a stored
\* configuration whose UDPIPv4 entry had another worker_threads value.
C19_Witness ==
    /\ ipv8.state # None
    /\ ipv8.endpoint = "RustEndpoint"
    /\ ~aliased
    /\ \E i \in 1..Len(ipv8.configuration["interfaces"]) :
           /\ ipv8.configuration["interfaces"][i]["interface"] = "UDPIPv4"
           /\ "worker_threads" \in DOMAIN configuration0["ipv8"]["interfaces"][i]
           /\ configuration0["ipv8"]["interfaces"][i]["worker_threads"]
                  # ipv8.configuration["interfaces"][i]["worker_threads"]

-----------------------------------------------------------------------------
(* Properties of the circuit pool and of the SOCKS bridge. *)

\* Enough candidate peers: one for every hop of the longest circuit.
EnoughPeers == \A t \in Tiers : Cardinality(peers) >= t

\* C13: in every tier the READY circuits are never more than max_circuits,
\* no step puts a new circuit in a tier whose READY circuits are at
\* max_circuits, and with enough candidate peers the READY circuits of the
\* tier eventually are at least min_circuits.
C13_PoolWithinBounds ==
    /\ [](\A t \in Tiers : Cardinality(ReadyCircuits(t)) <= max_circuits)
    /\ [][\A t \in Tiers :
             Cardinality(ReadyCircuits(t)) >= max_circuits =>
                 \A c \in DOMAIN circuits :
                     (circuits[c].state = "CLOSED" /\ circuits'[c].state # "CLOSED")
                         => circuits'[c].target # t]_vars
    /\ \A t \in Tiers :
           EnoughPeers => <>(Cardinality(ReadyCircuits(t)) >= min_circuits)

\* A tier is at max_circuits and at min_circuits with READY circuits, while
\* a slot and a first-hop candidate are free for one more.
C13_Witness ==
    \E t \in Tiers :
        /\ Cardinality(ReadyCircuits(t)) = max_circuits
        /\ Cardinality(ReadyCircuits(t)) >= min_circuits
        /\ FreeSlots # {}
        /\ FirstCandidates # {}

\* C14: a circuit never has more hops than its target hop count, it is
\* READY only with exactly that many hops, and a circuit one of whose
\* extensions timed out or got an invalid response is CLOSED with no hop
\* left, never usable with the hops it had.
C14_HopsAndTarget ==
    \A c \in DOMAIN circuits :
        /\ Len(circuits[c].hops) <= circuits[c].target
        /\ circuits[c].state = "READY" => Len(circuits[c].hops) = circuits[c].target
        /\ circuits[c].state = "EXTENDING" => Len(circuits[c].hops) < circuits[c].target
        /\ circuits[c].failed =>
               /\ circuits[c].state = "CLOSED"
               /\ circuits[c].hops = <<>>

\* One circuit is READY with two hops while another was closed by a failed
\* extension.
C14_Witness ==
    /\ \E c \in DOMAIN circuits :
           /\ circuits[c].state = "READY"
           /\ circuits[c].target = 2
           /\ Len(circuits[c].hops) = 2
    /\ \E c \in DOMAIN circuits :
           circuits[c].state = "CLOSED" /\ circuits[c].failed

\* C15: the hops of a circuit are pairwise different peers, and the peer an
\* extension is outstanding to is none of the hops the circuit has.
C15_DistinctPeers ==
    \A c \in DOMAIN circuits :
        /\ \A i, j \in 1..Len(circuits[c].hops) :
               circuits[c].hops[i] = circuits[c].hops[j] => i = j
        /\ circuits[c].pending \notin Range(circuits[c].hops)

\* A circuit was extended to a second hop, a peer other than its first
\* hop, and is READY.
C15_Witness ==
    \E c \in DOMAIN circuits :
        /\ circuits[c].state = "READY"
        /\ Len(circuits[c].hops) = 2
        /\ circuits[c].hops[1] # circuits[c].hops[2]

\* The circuits a connection is registered on.
CircuitsOf(k) == {c \in DOMAIN circuits : k \in circuits[c].bound}

\* C16: a connection is registered on at most one circuit, on exactly one
\* READY circuit of its tier when it is bound and on none otherwise; no
\* circuit that left READY has a connection bound to it; after its circuit
\* was lost a connection is bound again, queued or reset only after exactly
\* one rebind attempt; and a connection that owes its rebind attempt is
\* eventually bound to a READY circuit or reset.
C16_OneRebindThenBoundOrReset ==
    /\ [](\A k \in DOMAIN connections :
            /\ Cardinality(CircuitsOf(k)) <= 1
            /\ connections[k].state = "bound" <=> CircuitsOf(k) # {}
            /\ \A c \in CircuitsOf(k) :
                   /\ circuits[c].state = "READY"
                   /\ circuits[c].target = connections[k].tier
            /\ connections[k].rebinds <= 1
            /\ (connections[k].broken /\ connections[k].state # "rebinding")
                   => connections[k].rebinds = 1
            /\ connections[k].state = "rebinding" => connections[k].rebinds = 0)
    /\ [](\A c \in DOMAIN circuits :
            circuits[c].state # "READY" => circuits[c].bound = {})
    /\ \A k \in 1..MaxConnections :
           (connections[k].state \in {"rebinding", "waiting"})
               ~> (connections[k].state \in {"bound", "reset"})

\* A connection whose circuit was lost is bound to a READY circuit again,
\* after one rebind attempt.
C16_Witness ==
    \E k \in DOMAIN connections :
        /\ connections[k].broken
        /\ connections[k].state = "bound"
        /\ connections[k].rebinds = 1
        /\ circuits[BoundCircuit(k)].state = "READY"

-----------------------------------------------------------------------------
(* Properties of CoreManager. *)

-----------------------------------------------------------------------------
(* Properties of the construction of the configuration manager. *)

\* The files C20 is about: none, invalid JSON, an empty JSON value.
FallsBack(file) ==
    \/ file.kind \in {"missing", "invalid_json"}
    \/ file.kind = "json" /\ Falsy(file.json)

\* C20: a manager constructed from a file that does not exist, holds
\* invalid JSON or holds an empty JSON value is constructed without an
\* exception and answers every option from the default configuration; a
\* JSONDecodeError never leaves the constructor.
C20_FallsBackToDefaults ==
    /\ raised # "JSONDecodeError"
    /\ (pc # "unloaded" /\ FallsBack(config_file)) =>
           /\ pc \in {"manager", "got"}
           /\ raised = None
           /\ aliased
           /\ configuration = DEFAULT_CONFIG_VALUE
           /\ \A option \in Options :
                  ConfigGet(option) = FetchFromDefaults(DEFAULT_CONFIG_VALUE, option)
           /\ pc = "got" =>
                  get_result = FetchFromDefaults(DEFAULT_CONFIG_VALUE, get_option)

\* A manager constructed from invalid JSON answered max_circuits.
C20_Witness ==
    /\ config_file.kind = "invalid_json"
    /\ pc = "got"
    /\ get_option = <<"tunnel_community", "max_circuits">>
    /\ get_result = DEFAULT_CONFIG_VALUE["tunnel_community"]["max_circuits"]

-----------------------------------------------------------------------------
(* Properties of TriblerConfigManager.set. *)

\* p is a prefix of q.
IsPrefix(p, q) == Len(p) <= Len(q) /\ SubSeq(q, 1, Len(p)) = p

\* q is neither a prefix nor an extension of p.
Unrelated(p, q) == ~IsPrefix(p, q) /\ ~IsPrefix(q, p)

\* get(option) before the last set call.
GetBefore(option) == get(set_before.configuration, set_before.DEFAULT_CONFIG, option)

\* C21: after set(path, v) returned, get(path) is v and get of every path
\* that is neither a prefix nor an extension of path is what it was before
\* the call; a get call made after the set returns these values.
C21_SetThenGet ==
    /\ (pc = "set" /\ raised = None) =>
           /\ ConfigGet(set_option) = set_value
           /\ \A q \in Options :
                  Unrelated(set_option, q) => ConfigGet(q) = GetBefore(q)
    /\ (pc = "got" /\ set_calls > 0) =>
           /\ get_option = set_option => get_result = set_value
           /\ Unrelated(set_option, get_option) => get_result = GetBefore(get_option)

\* A key of a stored section that lacked it was set, and then another
\* option was read.
C21_Witness ==
    /\ pc = "got"
    /\ ~aliased
    /\ set_option = <<"tunnel_community", "min_circuits">>
    /\ "min_circuits" \notin DOMAIN set_before.configuration["tunnel_community"]
    /\ get_option = <<"tunnel_community", "max_circuits">>
    /\ get_result = 2

\* C23: set never changes the defaults: whatever was set, the module-level
\* defaults, from which get of this and of every other manager answers
\* what is not stored, hold the values they were built with.
C23_DefaultsNeverChange ==
    /\ DEFAULT_CONFIG = DEFAULT_CONFIG_VALUE
    /\ \A option \in Options :
           FetchFromDefaults(DEFAULT_CONFIG, option)
               = FetchFromDefaults(DEFAULT_CONFIG_VALUE, option)

-----------------------------------------------------------------------------
(* Properties of run_tribler. *)

\* C22: whenever parse_args accepted the command line, log_level is a
\* string that names a logging level, logging is configured without an
\* exception, and main then runs exactly one of run_core (with --core) and
\* run_gui (without).
C22_ValidLogLevel ==
    /\ parsed_args.state = "parsed" =>
           /\ parsed_args.log_level.type = "str"
           /\ parsed_args.log_level.value \in LoggingLevels
           /\ pc # "main_failed"
    /\ raised \notin {"TypeError", "AttributeError"}
    /\ Len(launched) <= 1
    /\ pc = "running" =>
           launched = << IF parsed_args.core THEN "run_core" ELSE "run_gui" >>

-----------------------------------------------------------------------------
(* Properties of the REST manager under Session.shutdown. *)

IsRestStop(e) == IsStopCall(e) /\ e.sub = "rest_manager"

IsNotify(e) == e.ev = "notify"

\* The stop call of the REST manager is the last event of shutdown: the
\* notification of every phase and the stop of every subsystem the session
\* holds came before it.
RestStoppedLast ==
    \A n \in 1..Len(trace) :
        IsRestStop(trace[n]) =>
            /\ n = Len(trace)
            /\ Happened("notify", ShutdownState("rest_manager"), 0)
            /\ Happened("stop", "download_manager", 0)
            /\ \A i \in 1..Len(socks_servers) : Happened("stop", "socks", i)
            /\ ipv8.state # None => Happened("stop", "ipv8", 0)
            /\ \A g \in {"torrent_checker", "db", "mds"} :
                   globals[g] # None => Happened("stop", g, 0)

\* The REST API was started before the n-th event and not stopped before it.
RestRunningAt(n) ==
    /\ Before(Pos("start", "rest_manager", 0), n)
    /\ \A m \in 1..(n - 1) : ~IsRestStop(trace[m])

\* C24 as stated: the REST manager is stopped after everything else and
\* after the last notification, and every shutdown-state notification is
\* emitted while the REST API is running.
C24_NotifiedWhileRestRuns ==
    /\ RestStoppedLast
    /\ \A n \in 1..Len(trace) : IsNotify(trace[n]) => RestRunningAt(n)

\* C24 (amended): the REST manager is stopped after everything else and
\* after the last notification, and no notification follows its stop; the
\* REST API is running at every notification when start had started it,
\* and is not when shutdown follows a start that failed before that.
C24_RestStoppedLast ==
    /\ RestStoppedLast
    /\ \A n \in 1..Len(trace) :
           IsNotify(trace[n]) =>
               /\ \A m \in 1..(n - 1) : ~IsRestStop(trace[m])
               /\ Happened("start", "rest_manager", 0) <=> RestRunningAt(n)
    /\ (Happened("start", "rest_manager", 0) /\ \A n \in 1..Len(trace) : ~IsRestStop(trace[n]))
           => rest_manager.state = "running"

\* A started session was shut down to the end, the torrent checker and the
\* metadata database included.
C24_Witness ==
    /\ pc = "stopped"
    /\ Happened("start", "rest_manager", 0)
    /\ Happened("stop", "rest_manager", 0)
    /\ rest_manager.state = "stopped"
    /\ Happened("notify", ShutdownState("torrent_checker"), 0)
    /\ Happened("notify", ShutdownState("mds"), 0)
    /\ Len(socks_servers) >= 1

====
